---- MODULE Spec2Model ----
(***************************************************************************)
(* Backup / replication status tools of carpenike/nix-config:              *)
(*   scripts/syncoid-list.py   (Replication; metrics mode and --verify)    *)
(*   scripts/backup-status.py  (pgBackRest, Syncoid, Restic dashboard)     *)
(* One run of one tool is one behaviour: the queries return (each answer   *)
(* is drawn from a bounded set), the records are merged, classified,       *)
(* filtered and printed, and the run ends with an exit status.             *)
(*                                                                         *)
(* Text is a sequence of code points, so that lower-casing, substring      *)
(* tests and sort order are computed and not assumed.  An optional value   *)
(* (Python None) is the empty sequence, a present value v is <<v>>.        *)
(* Time is in whole seconds.                                               *)
(***************************************************************************)
EXTENDS Integers, Sequences, FiniteSets, TLC

VARIABLES tool, args, pc, now, results, jobs, output, exitCode

vars == <<tool, args, pc, now, results, jobs, output, exitCode>>

(***************************************************************************)
(* Bounds of the model.                                                    *)
(***************************************************************************)
\* The longest result vector a query returns.
MaxSamples == 2

(***************************************************************************)
(* Optional values and text.                                               *)
(***************************************************************************)
None == <<>>
Some(v) == <<v>>
IsNone(o) == o = <<>>
Get(o) == o[1]

\* "a", "B": two dataset (job) names; "n", "m": two targets.
DatasetA == <<97>>
DatasetB == <<66>>
TargetN == <<110>>
TargetM == <<109>>
EmptyText == <<>>

Datasets == {DatasetA, DatasetB}
Targets == {TargetN, TargetM}

\* str.lower() on one code point (ASCII letters).
LowerChar(c) == IF c >= 65 /\ c <= 90 THEN c + 32 ELSE c
Lower(s) == [i \in 1..Len(s) |-> LowerChar(s[i])]

\* Python's "needle in hay" on text.
Contains(hay, needle) ==
    \E i \in 0..(Len(hay) - Len(needle)) :
        \A k \in 1..Len(needle) : hay[i + k] = needle[k]

\* Python's str "<=" : lexicographic on code points.
RECURSIVE TextLeq(_, _)
TextLeq(a, b) ==
    IF a = <<>> THEN TRUE
    ELSE IF b = <<>> THEN FALSE
    ELSE IF Head(a) < Head(b) THEN TRUE
    ELSE IF Head(a) > Head(b) THEN FALSE
    ELSE TextLeq(Tail(a), Tail(b))

(***************************************************************************)
(* What the metrics store returns.  A sample is one element of a result    *)
(* vector: its labels (dataset / job name, target) and its value, which is *)
(* a number or text that float() cannot parse; a sample may also come      *)
(* without the "value" key.                                                *)
(***************************************************************************)
Num(n) == [num |-> TRUE, v |-> n, missing |-> FALSE]
Malformed == [num |-> FALSE, v |-> 0, missing |-> FALSE]
Missing == [num |-> FALSE, v |-> 0, missing |-> TRUE]

\* item.get('value', [0, 0])[1]: the value of the sample, the number 0 if the
\* sample has none.
ValueOrZero(x) == IF x.missing THEN Num(0) ELSE x

\* name: the dataset, backup_job or repo_key label; target: the target, repository
\* or backup type label.
Sample(d, t, x) == [name |-> d, target |-> t, value |-> x]

\* The instants a run may take place at.
Clock == {200000}
Epoch == CHOOSE t \in Clock : \A u \in Clock : t <= u

\* The job identities of the model: a dataset with two targets, and a second dataset.
Identities == {<<DatasetA, TargetN>>, <<DatasetA, TargetM>>, <<DatasetB, TargetN>>}
SingleIdentities == {<<DatasetA, TargetN>>, <<DatasetB, TargetN>>}

\* Result vectors: every vector of one sample with a value of Rich, and every
\* longer vector (to MaxSamples) of samples with distinct label sets and a
\* value of Coarse.  Prometheus returns no two samples with the same labels.
RECURSIVE Vectors(_, _, _)
Vectors(ids, values, n) ==
    IF n = 0 THEN {<<>>}
    ELSE { Append(v, Sample(id[1], id[2], x)) :
              v \in Vectors(ids, values, n - 1), id \in ids, x \in values }

DistinctLabels(v) ==
    \A i, j \in 1..Len(v) :
        i # j => <<v[i].name, v[i].target>> # <<v[j].name, v[j].target>>

ResultVectors(single, rich, several, coarse) ==
    {<<>>}
    \cup { <<Sample(id[1], id[2], x)>> : id \in single, x \in rich }
    \cup UNION { { v \in Vectors(several, coarse, n) : DistinctLabels(v) } :
                 n \in 2..MaxSamples }

\* A response of query_prometheus: None (the request failed, or the status was
\* not "success") or the data with its result vector.
Pending == [st |-> "pending", result |-> <<>>]
Failed == [st |-> "failed", result |-> <<>>]
Answer(v) == [st |-> "ok", result |-> v]

Responses(single, rich, several, coarse) ==
    {Failed} \cup { Answer(v) : v \in ResultVectors(single, rich, several, coarse) }

(***************************************************************************)
(* syncoid-list.py                                                         *)
(***************************************************************************)
SyncoidList == "syncoid-list"

\* STALE_THRESHOLD_HOURS of syncoid-list.py.
SyncoidList_STALE_THRESHOLD_HOURS == 2

\* get_status_display: (status_text, color, details).  age_hours is
\* (now - last_success) / 3600, compared in seconds here.
Display(t, c, d) == [text |-> t, color |-> c, details |-> d]

StaleDetails(hours) == "Last success > " \o ToString(hours) \o "h ago"

\* get_status_display with a missing timestamp taken as "cannot tell": the
\* success branch answers UNKNOWN when last_success is None.
get_status_display_NoTimestampUnknown(status, last_success, t) ==
    IF status = Some(2) THEN Display("RUNNING", "cyan", "Replication in progress")
    ELSE IF status = Some(0) THEN Display("FAILED", "red", "Last run failed")
    ELSE IF ~IsNone(last_success)
            /\ t - Get(last_success) > SyncoidList_STALE_THRESHOLD_HOURS * 3600
         THEN Display("STALE", "yellow", StaleDetails(SyncoidList_STALE_THRESHOLD_HOURS))
         ELSE IF status = Some(1) /\ ~IsNone(last_success)
              THEN Display("OK", "green", "Healthy")
              ELSE Display("UNKNOWN", "dim", "No status metric")

\* get_status_display with the last branch defaulting to healthy: a record
\* with no status that is not stale answers OK.
get_status_display_NoStatusHealthy(status, last_success, t) ==
    IF status = Some(2) THEN Display("RUNNING", "cyan", "Replication in progress")
    ELSE IF status = Some(0) THEN Display("FAILED", "red", "Last run failed")
    ELSE IF ~IsNone(last_success)
            /\ t - Get(last_success) > SyncoidList_STALE_THRESHOLD_HOURS * 3600
         THEN Display("STALE", "yellow", StaleDetails(SyncoidList_STALE_THRESHOLD_HOURS))
         ELSE IF status = Some(1) /\ IsNone(last_success)
              THEN Display("OK", "green", "Healthy (no timestamp)")
              ELSE Display("OK", "green", "Healthy")

get_status_display(status, last_success, t) ==
    IF status = Some(2) THEN Display("RUNNING", "cyan", "Replication in progress")
    ELSE IF status = Some(0) THEN Display("FAILED", "red", "Last run failed")
    ELSE IF status = Some(1) THEN
        IF ~IsNone(last_success) THEN
            IF t - Get(last_success) > SyncoidList_STALE_THRESHOLD_HOURS * 3600
            THEN Display("STALE", "yellow", StaleDetails(SyncoidList_STALE_THRESHOLD_HOURS))
            ELSE Display("OK", "green", "Healthy")
        ELSE Display("OK", "green", "Healthy (no timestamp)")
    ELSE
        IF ~IsNone(last_success)
           /\ t - Get(last_success) > SyncoidList_STALE_THRESHOLD_HOURS * 3600
        THEN Display("STALE", "yellow", StaleDetails(SyncoidList_STALE_THRESHOLD_HOURS))
        ELSE Display("UNKNOWN", "dim", "No status metric")

\* A job record of syncoid-list (the fields the classification, the filters
\* and the sort read).
Job(d, t, s, l) == [dataset |-> d, target_host |-> t, status |-> s, last_success |-> l]

\* jobs[key] = rec on a Python dict kept in insertion order.
HasKey(js, key) == \E i \in 1..Len(js) : js[i].dataset = key
KeyIndex(js, key) == CHOOSE i \in 1..Len(js) : js[i].dataset = key
DictPut(js, key, rec) ==
    IF HasKey(js, key) THEN [js EXCEPT ![KeyIndex(js, key)] = rec]
    ELSE Append(js, rec)

\* Lines 90-112: one record per non-empty dataset label of the info vector.
RECURSIVE MergeInfo(_, _)
MergeInfo(items, js) ==
    IF items = <<>> THEN js
    ELSE LET item == Head(items) IN
         IF item.name = EmptyText THEN MergeInfo(Tail(items), js)
         ELSE MergeInfo(Tail(items),
                        DictPut(js, item.name,
                                Job(item.name, item.target, None, None)))

\* Lines 114-124: int(float(value)) into the record of a known dataset; a
\* ValueError leaves the field as it was.
RECURSIVE MergeStatus(_, _)
MergeStatus(items, js) ==
    IF items = <<>> THEN js
    ELSE LET item == Head(items)
             value == ValueOrZero(item.value) IN
         IF HasKey(js, item.name) /\ value.num
         THEN MergeStatus(Tail(items),
                  [js EXCEPT ![KeyIndex(js, item.name)].status = Some(value.v)])
         ELSE MergeStatus(Tail(items), js)

\* Lines 126-136: float(value) into the record of a known dataset.
RECURSIVE MergeLastSuccess(_, _)
MergeLastSuccess(items, js) ==
    IF items = <<>> THEN js
    ELSE LET item == Head(items)
             value == ValueOrZero(item.value) IN
         IF HasKey(js, item.name) /\ value.num
         THEN MergeLastSuccess(Tail(items),
                  [js EXCEPT ![KeyIndex(js, item.name)].last_success = Some(value.v)])
         ELSE MergeLastSuccess(Tail(items), js)

\* The answers of the three queries of syncoid-list.  The info metric is
\* always 1; a sample may lack the dataset label.
NoDataset == <<EmptyText, TargetN>>

InfoResponses ==
    Responses(SingleIdentities \cup {NoDataset}, {Num(1)},
              Identities \cup {NoDataset}, {Num(1)})

StatusResponses ==
    Responses(SingleIdentities, {Num(0), Num(1), Num(2), Num(3), Malformed, Missing},
              Identities, {Num(0), Num(1)})

LastSuccessResponses ==
    Responses(SingleIdentities,
              {Num(Epoch - 10), Num(Epoch - SyncoidList_STALE_THRESHOLD_HOURS * 3600),
               Num(Epoch - SyncoidList_STALE_THRESHOLD_HOURS * 3600 - 1),
               Num(Epoch - 9999), Num(Epoch + 60), Malformed, Missing},
              SingleIdentities, {Num(Epoch - 10), Num(Epoch - 9999)})

\* The command lines of syncoid-list: --verify, --json, --dataset, --target.
DatasetFilters == {None, Some(<<65>>)}
TargetFilters == {None, Some(<<77>>)}

SyncoidListArgs ==
    { a \in [verify : BOOLEAN, json : BOOLEAN,
             dataset : DatasetFilters, target : TargetFilters] :
        a.json \/ a.dataset = None \/ a.target = None }

\* Filters that look at the verdict: besides the two filters, a job without
\* a status is dropped from the list.
ApplyFilters_DropsUnknown(js, a) ==
    LET Known(j) == j.status # None
        Named(j) == a.dataset # None /\ Get(a.dataset) # EmptyText
                        => Contains(Lower(j.dataset), Lower(Get(a.dataset)))
        Hosted(j) == a.target # None /\ Get(a.target) # EmptyText
                        => Contains(Lower(j.target_host), Lower(Get(a.target)))
        Keep(j) == Known(j) /\ Named(j) /\ Hosted(j)
    IN  SelectSeq(js, Keep)

\* Lines 564-569 of main: the two filters.
ApplyFilters(js, a) ==
    LET byDataset ==
            IF a.dataset # None /\ Get(a.dataset) # EmptyText
            THEN LET Keep(j) == Contains(Lower(j.dataset), Lower(Get(a.dataset)))
                 IN SelectSeq(js, Keep)
            ELSE js
    IN  IF a.target # None /\ Get(a.target) # EmptyText
        THEN LET Keep(j) == Contains(Lower(j.target_host), Lower(Get(a.target)))
             IN SelectSeq(byDataset, Keep)
        ELSE byDataset

\* sorted(jobs, key=lambda x: x['dataset']): a stable insertion sort.
RECURSIVE InsertByDataset(_, _)
InsertByDataset(sorted, j) ==
    IF sorted = <<>> THEN <<j>>
    ELSE IF TextLeq(Head(sorted).dataset, j.dataset)
         THEN <<Head(sorted)>> \o InsertByDataset(Tail(sorted), j)
         ELSE <<j>> \o sorted

RECURSIVE SortByDataset(_)
SortByDataset(js) ==
    IF js = <<>> THEN <<>>
    ELSE InsertByDataset(SortByDataset(SubSeq(js, 1, Len(js) - 1)), js[Len(js)])

\* One printed job: the record and its verdict.
OutputJob(j, t) ==
    LET d == get_status_display(j.status, j.last_success, t) IN
    [dataset |-> j.dataset, target_host |-> j.target_host, status |-> j.status,
     status_text |-> d.text, last_success |-> j.last_success, details |-> d.details]

CountText(rows, text) == Cardinality({ i \in 1..Len(rows) : rows[i].status_text = text })

NoOutput == [kind |-> "none", mode |-> "", jobs |-> <<>>, summary |-> <<>>]

\* print_json_output that trusts the host more than the store: a record read
\* with --verify that says "success" is printed OK without the staleness test.
print_json_output_ModeLeaks(js, mode, t) ==
    LET Trusted(j) == IF mode = "verify" /\ j.status = Some(1)
                      THEN [j EXCEPT !.last_success = None] ELSE j
        rows == [i \in 1..Len(js) |->
                    [OutputJob(Trusted(js[i]), t) EXCEPT !.last_success = js[i].last_success]]
    IN
    [kind |-> "json", mode |-> mode, jobs |-> rows,
     summary |-> [total |-> Len(js), ok |-> CountText(rows, "OK"),
                  running |-> CountText(rows, "RUNNING"),
                  stale |-> CountText(rows, "STALE"),
                  failed |-> CountText(rows, "FAILED"),
                  healthy |-> CountText(rows, "OK") + CountText(rows, "RUNNING")]]

\* print_json_output: the jobs in the order given, and the summary.
print_json_output(js, mode, t) ==
    LET rows == [i \in 1..Len(js) |-> OutputJob(js[i], t)] IN
    [kind |-> "json", mode |-> mode, jobs |-> rows,
     summary |-> [total |-> Len(js), ok |-> CountText(rows, "OK"),
                  running |-> CountText(rows, "RUNNING"),
                  stale |-> CountText(rows, "STALE"),
                  failed |-> CountText(rows, "FAILED"),
                  healthy |-> CountText(rows, "OK") + CountText(rows, "RUNNING")]]

\* A time_ago without the test for a negative difference: a last success in
\* the future reads "Just now".
time_ago_NoFuture(ts, t) ==
    IF ts = None THEN "Never"
    ELSE LET diff == t - Get(ts) IN
         IF diff < 60 THEN "Just now"
         ELSE IF diff < 3600 THEN ToString(diff \div 60) \o "m ago"
         ELSE IF diff < 86400 THEN ToString(diff \div 3600) \o "h ago"
         ELSE ToString(diff \div 86400) \o "d ago"

\* time_ago of syncoid-list.py (lines 152-169).
time_ago(ts, t) ==
    IF ts = None THEN "Never"
    ELSE LET diff == t - Get(ts) IN
         IF diff < 0 THEN "In future"
         ELSE IF diff < 60 THEN "Just now"
         ELSE IF diff < 3600 THEN ToString(diff \div 60) \o "m ago"
         ELSE IF diff < 86400 THEN ToString(diff \div 3600) \o "h ago"
         ELSE ToString(diff \div 86400) \o "d ago"

\* Line 413: time_ago(last_success) if last_success else "Never" (a last
\* success of 0 is false in Python).
LastSuccessStr(j, t) ==
    IF j.last_success = None \/ j.last_success = Some(0) THEN "Never"
    ELSE time_ago(j.last_success, t)

\* print_table_output: the jobs sorted by dataset, each with the relative time
\* of its last success, and the summary line.
print_table_output(js, mode, t) ==
    LET sorted == SortByDataset(js)
        rows == [i \in 1..Len(sorted) |->
                    OutputJob(sorted[i], t)
                        @@ [last_success_str |-> LastSuccessStr(sorted[i], t)]] IN
    [kind |-> "table", mode |-> mode, jobs |-> rows,
     summary |-> [total |-> Len(js), ok |-> CountText(rows, "OK"),
                  running |-> CountText(rows, "RUNNING"),
                  stale |-> CountText(rows, "STALE"),
                  failed |-> CountText(rows, "FAILED")]]

\* "No syncoid replication jobs found." (lines 575-578).
NoJobsMessage == [kind |-> "no-jobs", mode |-> "", jobs |-> <<>>, summary |-> <<>>]

\* An info query after whose failure the run goes on to the status query.
SL_QueryInfo_GoesOnAfterFailure ==
    /\ tool = SyncoidList /\ ~args.verify /\ pc = "start"
    /\ \E r \in InfoResponses :
         /\ results' = [results EXCEPT !["info"] = r]
         /\ jobs' = IF r.st # "ok" THEN <<>> ELSE MergeInfo(r.result, <<>>)
         /\ pc' = "status"
    /\ UNCHANGED <<tool, args, now, output, exitCode>>

\* get_syncoid_metrics_from_prometheus, lines 85-112: the info query.
SL_QueryInfo ==
    /\ tool = SyncoidList /\ ~args.verify /\ pc = "start"
    /\ \E r \in InfoResponses :
         /\ results' = [results EXCEPT !["info"] = r]
         /\ IF r.st # "ok"
            THEN jobs' = <<>> /\ pc' = "filter"
            ELSE jobs' = MergeInfo(r.result, <<>>) /\ pc' = "status"
    /\ UNCHANGED <<tool, args, now, output, exitCode>>

\* A status query after which the list is returned at once, the last-success
\* query never issued.
SL_QueryStatus_SkipsLastSuccess ==
    /\ tool = SyncoidList /\ pc = "status"
    /\ \E r \in StatusResponses :
         /\ results' = [results EXCEPT !["status"] = r]
         /\ jobs' = IF r.st = "ok" THEN MergeStatus(r.result, jobs) ELSE jobs
    /\ pc' = "filter"
    /\ UNCHANGED <<tool, args, now, output, exitCode>>

\* Lines 114-124: the status query.
SL_QueryStatus ==
    /\ tool = SyncoidList /\ pc = "status"
    /\ \E r \in StatusResponses :
         /\ results' = [results EXCEPT !["status"] = r]
         /\ jobs' = IF r.st = "ok" THEN MergeStatus(r.result, jobs) ELSE jobs
    /\ pc' = "last_success"
    /\ UNCHANGED <<tool, args, now, output, exitCode>>

\* Lines 126-138: the last-success query.
SL_QueryLastSuccess ==
    /\ tool = SyncoidList /\ pc = "last_success"
    /\ \E r \in LastSuccessResponses :
         /\ results' = [results EXCEPT !["last_success"] = r]
         /\ jobs' = IF r.st = "ok" THEN MergeLastSuccess(r.result, jobs) ELSE jobs
    /\ pc' = "filter"
    /\ UNCHANGED <<tool, args, now, output, exitCode>>

\* main, lines 564-582: filter, print, exit status.
SL_Output ==
    /\ tool = SyncoidList /\ pc = "filter"
    /\ LET kept == ApplyFilters(jobs, args)
           mode == IF args.verify THEN "verify" ELSE "prometheus"
       IN
       /\ jobs' = kept
       /\ IF args.json
          THEN output' = print_json_output(kept, mode, now) /\ exitCode' = Some(0)
          ELSE IF kept = <<>>
               THEN output' = NoJobsMessage /\ exitCode' = Some(1)
               ELSE output' = print_table_output(kept, mode, now) /\ exitCode' = Some(0)
    /\ pc' = "done"
    /\ UNCHANGED <<tool, args, now, results>>

(***************************************************************************)
(* syncoid-list.py --verify: systemd on the host, read over SSH.           *)
(***************************************************************************)
\* "unknown", the target when ExecStart names none.
UnknownText == <<117, 110, 107, 110, 111, 119, 110>>

\* A syncoid unit as the host shows it: the unit name after "syncoid-", the
\* outcome of "systemctl show" (show_ok: exit status 0) and the properties.
\* exit_timestamp is the empty text (None), a time the text denotes, or text
\* that strptime rejects (Malformed); target_host is the host of user@host:
\* in ExecStart, if any.
Service(u, ok, a, r, ts, th) ==
    [unit |-> u, show_ok |-> ok, active_state |-> a, result |-> r,
     exit_timestamp |-> ts, target_host |-> th]

\* dataset = service_name.replace('syncoid-', '').replace('-', '/')
DashToSlash(u) == [i \in 1..Len(u) |-> IF u[i] = 45 THEN 47 ELSE u[i]]

RichServices ==
    { Service(u, TRUE, a, r, ts, th) :
        u \in Datasets, a \in {"activating", "inactive", "failed"},
        r \in {"success", "exit-code"},
        ts \in {None, Some(Num(Epoch - 10)), Some(Num(Epoch - 9999)), Some(Malformed)},
        th \in {None, Some(TargetM)} }
    \cup { Service(u, FALSE, "inactive", "success", None, None) : u \in Datasets }

CoarseServices ==
    { Service(u, TRUE, a, r, ts, Some(TargetN)) :
        u \in Datasets, a \in {"activating", "inactive"},
        r \in {"success", "exit-code"},
        ts \in {Some(Num(Epoch - 10)), Some(Num(Epoch - 9999))} }
    \cup { Service(u, FALSE, "inactive", "success", None, None) : u \in Datasets }

RECURSIVE ServiceLists(_)
ServiceLists(n) ==
    IF n = 0 THEN {<<>>}
    ELSE { Append(v, x) : v \in ServiceLists(n - 1), x \in CoarseServices }

DistinctUnits(v) == \A i, j \in 1..Len(v) : i # j => v[i].unit # v[j].unit

\* What the timer listing shows: the command fails, or it lists the units.
DiscoverResponses ==
    {Failed}
    \cup { Answer(<<>>) }
    \cup { Answer(<<x>>) : x \in RichServices }
    \cup UNION { { Answer(v) : v \in { w \in ServiceLists(n) : DistinctUnits(w) } } :
                 n \in 2..MaxSamples }

\* A status that reads the last result before the active state.
VerifyStatus_ResultFirst(svc) ==
    IF svc.result = "success" THEN 1
    ELSE IF svc.active_state = "activating" THEN 2
    ELSE 0

\* get_syncoid_verify_data, lines 321-356: one record per discovered service.
VerifyStatus(svc) ==
    IF svc.active_state = "activating" THEN 2
    ELSE IF svc.result = "success" THEN 1
    ELSE 0

VerifyLastSuccess(svc) ==
    IF svc.exit_timestamp # None /\ svc.result = "success"
       /\ Get(svc.exit_timestamp).num
    THEN Some(Get(svc.exit_timestamp).v)
    ELSE None

VerifyJob(svc) ==
    Job(DashToSlash(svc.unit),
        IF svc.target_host = None THEN UnknownText ELSE Get(svc.target_host),
        Some(VerifyStatus(svc)), VerifyLastSuccess(svc))

\* discover_syncoid_services, lines 264-313: a service whose "systemctl show"
\* fails is skipped.
RECURSIVE get_syncoid_verify_data(_)
get_syncoid_verify_data(svcs) ==
    IF svcs = <<>> THEN <<>>
    ELSE IF Head(svcs).show_ok
         THEN <<VerifyJob(Head(svcs))>> \o get_syncoid_verify_data(Tail(svcs))
         ELSE get_syncoid_verify_data(Tail(svcs))

\* "Failed to connect" (lines 545-550).
ConnectError == [kind |-> "connect-error", mode |-> "", jobs |-> <<>>, summary |-> <<>>]

\* warmup_ssh_connection and its test in main, lines 543-550.
SL_Warmup ==
    /\ tool = SyncoidList /\ args.verify /\ pc = "start"
    /\ \E ok \in BOOLEAN :
         /\ results' = [results EXCEPT !["warmup"] = IF ok THEN Answer(<<>>) ELSE Failed]
         /\ IF ok
            THEN pc' = "discover" /\ UNCHANGED <<output, exitCode>>
            ELSE pc' = "done" /\ output' = ConnectError /\ exitCode' = Some(1)
    /\ UNCHANGED <<tool, args, now, jobs>>

\* get_syncoid_verify_data (line 552).
SL_Verify ==
    /\ tool = SyncoidList /\ pc = "discover"
    /\ \E r \in DiscoverResponses :
         /\ results' = [results EXCEPT !["discover"] = r]
         /\ jobs' = IF r.st = "ok" THEN get_syncoid_verify_data(r.result) ELSE <<>>
    /\ pc' = "filter"
    /\ UNCHANGED <<tool, args, now, output, exitCode>>

SyncoidListQueries(a) ==
    IF a.verify THEN {"warmup", "discover"} ELSE {"info", "status", "last_success"}

(***************************************************************************)
(* backup-status.py                                                        *)
(***************************************************************************)
BackupStatus == "backup-status"

\* STALE_THRESHOLD_HOURS of backup-status.py.
BackupStatus_STALE_THRESHOLD_HOURS == 26

\* QUERIES, in the order main issues them.
QUERIES ==
    <<"pgbackrest_age", "pgbackrest_repo_errors", "pgbackrest_stanza_status",
      "pgbackrest_repo_info", "syncoid_age", "syncoid_status",
      "restic_age", "restic_status">>

QueryNames == { QUERIES[i] : i \in 1..Len(QUERIES) }

Subsystem(q) ==
    IF q \in {"syncoid_age", "syncoid_status"} THEN "Syncoid"
    ELSE IF q \in {"restic_age", "restic_status"} THEN "Restic"
    ELSE "pgBackRest"

\* The ages "time() - <last success>" the store returns, in seconds.
AgeRich ==
    {Num(0 - 60), Num(10), Num(9999), Num(BackupStatus_STALE_THRESHOLD_HOURS * 3600),
     Num(BackupStatus_STALE_THRESHOLD_HOURS * 3600 + 1), Malformed}
AgeCoarse == {Num(10), Num(BackupStatus_STALE_THRESHOLD_HOURS * 3600 + 1)}

\* Repository samples (errors, info, stanza status): the repo key and the repo name.
RepoIdentities == {<<DatasetA, TargetN>>, <<DatasetB, TargetN>>}

AgeResponses == Responses(SingleIdentities, AgeRich, Identities, AgeCoarse)
SyncoidStatusResponses ==
    Responses(SingleIdentities, {Num(0), Num(1), Num(2), Num(3), Malformed},
              Identities, {Num(0), Num(1)})
ResticStatusResponses ==
    Responses(SingleIdentities, {Num(0), Num(1), Num(2), Malformed},
              Identities, {Num(0), Num(1)})
StanzaResponses == {Failed, Answer(<<>>), Answer(<<Sample(DatasetA, EmptyText, Num(0))>>)}
RepoResponses == Responses(RepoIdentities, {Num(1)}, RepoIdentities, {Num(1)})

BackupStatusResponses(q) ==
    IF q \in {"pgbackrest_age", "syncoid_age", "restic_age"} THEN AgeResponses
    ELSE IF q = "syncoid_status" THEN SyncoidStatusResponses
    ELSE IF q = "restic_status" THEN ResticStatusResponses
    ELSE IF q = "pgbackrest_stanza_status" THEN StanzaResponses
    ELSE RepoResponses

\* The model gives one subsystem per run answers other than the empty vector:
\* a query returns samples only if every query of the other subsystems
\* returned the empty vector, and fails only then or when every query before
\* it failed (the store is down).
AllowedResponses(q, res) ==
    LET othersEmpty ==
            \A i \in 1..Len(QUERIES) :
                Subsystem(QUERIES[i]) # Subsystem(q)
                    => res[QUERIES[i]] \in {Pending, Answer(<<>>)}
        allFailed == \A i \in 1..Len(QUERIES) : res[QUERIES[i]] \in {Pending, Failed}
    IN  { r \in BackupStatusResponses(q) :
            \/ r = Answer(<<>>)
            \/ r = Failed /\ (othersEmpty \/ allFailed)
            \/ r.result # <<>> /\ othersEmpty }

\* seconds_to_human_readable.
seconds_to_human_readable(seconds) ==
    IF seconds < 0 THEN "in the future"
    ELSE LET days == seconds \div 86400
             hours == (seconds % 86400) \div 3600
             minutes == (seconds % 3600) \div 60
             d == IF days > 0 THEN ToString(days) \o "d " ELSE ""
             h == IF hours > 0 THEN ToString(hours) \o "h " ELSE ""
             m == IF minutes > 0 \/ (days = 0 /\ hours = 0)
                  THEN ToString(minutes) \o "m " ELSE ""
         IN  d \o h \o m \o "ago"

\* get_status_for_age, get_syncoid_status, get_restic_status: (status, details);
\* the status is written without its colour markup.
Verdict(s, d) == [text |-> s, details |-> d]

\* get_status_for_age with ">=" for ">".
get_status_for_age_AtThreshold(age_seconds) ==
    IF age_seconds >= BackupStatus_STALE_THRESHOLD_HOURS * 3600
    THEN Verdict("STALE", StaleDetails(BackupStatus_STALE_THRESHOLD_HOURS))
    ELSE Verdict("OK", "Healthy")

get_status_for_age(age_seconds) ==
    IF age_seconds > BackupStatus_STALE_THRESHOLD_HOURS * 3600
    THEN Verdict("STALE", StaleDetails(BackupStatus_STALE_THRESHOLD_HOURS))
    ELSE Verdict("OK", "Healthy")

get_syncoid_status(status_value) ==
    IF status_value = 0 THEN Verdict("FAILED", "Last run failed")
    ELSE IF status_value = 2 THEN Verdict("RUNNING", "In progress")
    ELSE Verdict("OK", "Success")

get_restic_status(status_value) ==
    IF status_value = 0 THEN Verdict("FAILED", "Last run failed")
    ELSE Verdict("OK", "Success")

\* The first sample of a vector with the given name label (the loops of lines
\* 231-234 and 279-282 stop at the first match).
HasName(v, name) == \E i \in 1..Len(v) : v[i].name = name
FirstNamed(v, name) ==
    v[CHOOSE i \in 1..Len(v) :
        v[i].name = name /\ \A k \in 1..(i - 1) : v[k].name # name]
LastNamed(v, name) ==
    v[CHOOSE i \in 1..Len(v) :
        v[i].name = name /\ \A k \in (i + 1)..Len(v) : v[k].name # name]

\* A row of the dashboard: the system, the identity (name; target or backup
\* type), the current status read for it (None if no status sample matched),
\* the age, the verdict, and the sort key of its section.
Row(sys, name, target, display, status, age, verdict, key) ==
    [system |-> sys, name |-> name, target |-> target, display |-> display,
     status |-> status, age |-> age, status_text |-> verdict.text,
     details |-> verdict.details, ago |-> seconds_to_human_readable(age),
     key |-> key]

\* Lines 181-202: one pgBackRest row per age sample.
RepoPrefix == <<114, 101, 112, 111>>

\* The pgBackRest row with the age tested first: a repository error is shown
\* only on a row that is not fresh.
PgbackrestRow_FreshHidesError(res, errors, info) ==
    LET repo == res.name
        has_error == \E i \in 1..Len(errors) : errors[i].name = repo
        display == IF HasName(info, repo) THEN LastNamed(info, repo).target
                   ELSE RepoPrefix \o repo
    IN  Row("pgBackRest", repo, res.target, display, None, res.value.v,
            IF has_error /\ get_status_for_age(res.value.v).text = "STALE"
            THEN Verdict("ERROR", "Repository error")
            ELSE get_status_for_age(res.value.v),
            <<repo, res.target>>)

PgbackrestRow(res, errors, info) ==
    LET repo == res.name
        has_error == \E i \in 1..Len(errors) : errors[i].name = repo
        display == IF HasName(info, repo) THEN LastNamed(info, repo).target
                   ELSE RepoPrefix \o repo
    IN  Row("pgBackRest", repo, res.target, display, None, res.value.v,
            IF has_error THEN Verdict("ERROR", "Repository error")
            ELSE get_status_for_age(res.value.v),
            <<repo, res.target>>)

\* Lines 218-247: one Syncoid row per age sample.
\* A Syncoid row whose age is tested under every status that reads as a
\* success, an out-of-range code included.
SyncoidRow_EscalatesEverySuccess(res, statuses) ==
    LET dataset == res.name
        age_sec == res.value.v
        current_status == IF HasName(statuses, dataset)
                          THEN Some(FirstNamed(statuses, dataset).value.v)
                          ELSE None
        verdict ==
            IF current_status # None
            THEN IF Get(current_status) \notin {0, 2}
                    /\ get_status_for_age(age_sec).text = "STALE"
                 THEN get_status_for_age(age_sec)
                 ELSE get_syncoid_status(Get(current_status))
            ELSE get_status_for_age(age_sec)
    IN  Row("Syncoid", dataset, res.target, res.target, current_status, age_sec,
            verdict, <<dataset>>)

SyncoidRow(res, statuses) ==
    LET dataset == res.name
        age_sec == res.value.v
        current_status == IF HasName(statuses, dataset)
                          THEN Some(FirstNamed(statuses, dataset).value.v)
                          ELSE None
        verdict ==
            IF current_status # None
            THEN IF Get(current_status) = 1 /\ get_status_for_age(age_sec).text = "STALE"
                 THEN get_status_for_age(age_sec)
                 ELSE get_syncoid_status(Get(current_status))
            ELSE get_status_for_age(age_sec)
    IN  Row("Syncoid", dataset, res.target, res.target, current_status, age_sec,
            verdict, <<dataset>>)

\* A Restic row whose escalation replaces the verdict and keeps the detail of
\* the status: STALE "Success".
ResticRow_StaleKeepsStatusDetail(res, statuses) ==
    LET job == res.name
        age_sec == res.value.v
        current_status == IF HasName(statuses, job)
                          THEN Some(FirstNamed(statuses, job).value.v)
                          ELSE None
        verdict ==
            IF current_status # None
            THEN IF Get(current_status) = 1 /\ get_status_for_age(age_sec).text = "STALE"
                 THEN Verdict("STALE", get_restic_status(1).details)
                 ELSE get_restic_status(Get(current_status))
            ELSE get_status_for_age(age_sec)
    IN  Row("Restic", job, res.target, res.target, current_status, age_sec,
            verdict, <<job>>)

\* Lines 265-295: one Restic row per age sample.
ResticRow(res, statuses) ==
    LET job == res.name
        age_sec == res.value.v
        current_status == IF HasName(statuses, job)
                          THEN Some(FirstNamed(statuses, job).value.v)
                          ELSE None
        verdict ==
            IF current_status # None
            THEN IF Get(current_status) = 1 /\ get_status_for_age(age_sec).text = "STALE"
                 THEN get_status_for_age(age_sec)
                 ELSE get_restic_status(Get(current_status))
            ELSE get_status_for_age(age_sec)
    IN  Row("Restic", job, res.target, res.target, current_status, age_sec,
            verdict, <<job>>)

\* float(res["value"][1]) raises ValueError on text that is no number, and
\* nothing catches it: an age sample, or the first status sample that matches
\* an age sample.
RaisesValueError(ages, statuses) ==
    \E i \in 1..Len(ages) :
        \/ ~ages[i].value.num
        \/ /\ HasName(statuses, ages[i].name)
           /\ ~FirstNamed(statuses, ages[i].name).value.num

\* Python's "<=" on tuples of text.
RECURSIVE KeyLeq(_, _)
KeyLeq(a, b) ==
    IF a = <<>> THEN TRUE
    ELSE IF b = <<>> THEN FALSE
    ELSE IF Head(a) = Head(b) THEN KeyLeq(Tail(a), Tail(b))
    ELSE TextLeq(Head(a), Head(b))

\* rows.sort(key=...): a stable insertion sort.
RECURSIVE InsertByKey(_, _)
InsertByKey(sorted, r) ==
    IF sorted = <<>> THEN <<r>>
    ELSE IF KeyLeq(Head(sorted).key, r.key)
         THEN <<Head(sorted)>> \o InsertByKey(Tail(sorted), r)
         ELSE <<r>> \o sorted

RECURSIVE SortByKey(_)
SortByKey(rows) ==
    IF rows = <<>> THEN <<>>
    ELSE InsertByKey(SortByKey(SubSeq(rows, 1, Len(rows) - 1)), rows[Len(rows)])

\* The table of main, lines 167-307: the three sections, each sorted.
TableRows(res) ==
    LET pg == [i \in 1..Len(res["pgbackrest_age"].result) |->
                  PgbackrestRow(res["pgbackrest_age"].result[i],
                                res["pgbackrest_repo_errors"].result,
                                res["pgbackrest_repo_info"].result)]
        sy == [i \in 1..Len(res["syncoid_age"].result) |->
                  SyncoidRow(res["syncoid_age"].result[i], res["syncoid_status"].result)]
        re == [i \in 1..Len(res["restic_age"].result) |->
                  ResticRow(res["restic_age"].result[i], res["restic_status"].result)]
    IN  SortByKey(pg) \o SortByKey(sy) \o SortByKey(re)

Crashes(res) ==
    \/ RaisesValueError(res["pgbackrest_age"].result, <<>>)
    \/ RaisesValueError(res["syncoid_age"].result, res["syncoid_status"].result)
    \/ RaisesValueError(res["restic_age"].result, res["restic_status"].result)

Traceback == [kind |-> "traceback", mode |-> "", jobs |-> <<>>, summary |-> <<>>]
NoMetricsMessage == [kind |-> "no-metrics", mode |-> "", jobs |-> <<>>, summary |-> <<>>]

NoArgs == [verify |-> FALSE, json |-> FALSE, dataset |-> None, target |-> None]

\* A query loop that asks again: the next query is the first one without an
\* answer, a failed one included.
BS_Query_AsksAgain ==
    /\ tool = BackupStatus /\ pc = "start"
    /\ LET i == CHOOSE k \in 1..Len(QUERIES) :
                    /\ results[QUERIES[k]].st # "ok"
                    /\ \A m \in 1..(k - 1) : results[QUERIES[m]].st = "ok"
       IN /\ \E r \in AllowedResponses(QUERIES[i], results) :
                results' = [results EXCEPT ![QUERIES[i]] = r]
          /\ pc' = IF i = Len(QUERIES) THEN "render" ELSE "start"
    /\ UNCHANGED <<tool, args, now, jobs, output, exitCode>>

\* Lines 151-155: the next query of QUERIES; query_prometheus returns [] when
\* the request fails.
BS_Query ==
    /\ tool = BackupStatus /\ pc = "start"
    /\ LET i == CHOOSE k \in 1..Len(QUERIES) :
                    /\ results[QUERIES[k]] = Pending
                    /\ \A m \in 1..(k - 1) : results[QUERIES[m]] # Pending
       IN /\ \E r \in AllowedResponses(QUERIES[i], results) :
                results' = [results EXCEPT ![QUERIES[i]] = r]
          /\ pc' = IF i = Len(QUERIES) THEN "render" ELSE "start"
    /\ UNCHANGED <<tool, args, now, jobs, output, exitCode>>

\* Lines 157-320: build the rows, print, exit status.
BS_Render ==
    /\ tool = BackupStatus /\ pc = "render"
    /\ IF Crashes(results)
       THEN output' = Traceback /\ exitCode' = Some(1)
       ELSE LET rows == TableRows(results) IN
            IF rows = <<>>
            THEN output' = NoMetricsMessage /\ exitCode' = Some(1)
            ELSE output' = [kind |-> "table", mode |-> "prometheus", jobs |-> rows,
                            summary |-> <<>>]
                 /\ exitCode' = Some(0)
    /\ pc' = "done"
    /\ UNCHANGED <<tool, args, now, results, jobs>>

(***************************************************************************)
(* backup-list.py: the metrics of the store.                               *)
(***************************************************************************)
BackupList == "backup-list"

\* The metrics fetched after the status metric, in the order of "queries".
ExtraQueries == <<"last_success", "duration", "files", "size", "snapshots", "healthy">>

BackupListQueryNames == {"status"} \cup { ExtraQueries[i] : i \in 1..Len(ExtraQueries) }

\* A record of jobs[job_name] (lines 96-109): the identity and the status come
\* from the status sample, every other field starts as None.
BackupJob(j, r, s) ==
    [job_name |-> j, repository_name |-> r, status |-> s, last_success |-> None,
     duration |-> None, files |-> None, size |-> None, snapshots |-> None,
     healthy |-> None]

HasJob(js, key) == \E i \in 1..Len(js) : js[i].job_name = key
JobIndex(js, key) == CHOOSE i \in 1..Len(js) : js[i].job_name = key

\* int(float(item.get('value', [0, 0])[1])) of line 102 raises ValueError on
\* text that is no number, outside any try, for a sample that names a job.
StatusRaises(items) ==
    \E i \in 1..Len(items) :
        items[i].name # EmptyText /\ ~ValueOrZero(items[i].value).num

\* Lines 89-109: one record per non-empty backup_job label of the status vector.
RECURSIVE MergeBackupStatus(_, _)
MergeBackupStatus(items, js) ==
    IF items = <<>> THEN js
    ELSE LET item == Head(items)
             rec == BackupJob(item.name, item.target, ValueOrZero(item.value).v) IN
         IF item.name = EmptyText THEN MergeBackupStatus(Tail(items), js)
         ELSE MergeBackupStatus(Tail(items),
                  IF HasJob(js, item.name)
                  THEN [js EXCEPT ![JobIndex(js, item.name)] = rec]
                  ELSE Append(js, rec))

\* Lines 126-141: the value of one sample into the field of its metric; a
\* ValueError leaves the field as it was.
SetField(rec, metric_name, value) ==
    IF ~value.num THEN rec
    ELSE IF metric_name = "last_success" THEN [rec EXCEPT !.last_success = Some(value.v)]
    ELSE IF metric_name = "duration" THEN [rec EXCEPT !.duration = Some(value.v)]
    ELSE IF metric_name = "files" THEN [rec EXCEPT !.files = Some(value.v)]
    ELSE IF metric_name = "size" THEN [rec EXCEPT !.size = Some(value.v)]
    ELSE IF metric_name = "snapshots" THEN [rec EXCEPT !.snapshots = Some(value.v)]
    ELSE [rec EXCEPT !.healthy = Some(value.v = 1)]

\* Lines 120-141: the samples of one additional metric.
RECURSIVE MergeExtra(_, _, _)
MergeExtra(metric_name, items, js) ==
    IF items = <<>> THEN js
    ELSE LET item == Head(items) IN
         IF HasJob(js, item.name)
         THEN MergeExtra(metric_name, Tail(items),
                  [js EXCEPT ![JobIndex(js, item.name)] =
                      SetField(js[JobIndex(js, item.name)], metric_name,
                               ValueOrZero(item.value))])
         ELSE MergeExtra(metric_name, Tail(items), js)

\* The answers of the queries of backup-list.
BackupStatusMetricResponses ==
    Responses(SingleIdentities \cup {NoDataset}, {Num(0), Num(1), Malformed, Missing},
              Identities, {Num(0), Num(1)})
BackupLastSuccessResponses ==
    Responses(SingleIdentities, {Num(Epoch - 10), Num(Epoch - 7200), Malformed, Missing},
              SingleIdentities, {Num(Epoch - 10)})
BackupHealthyResponses ==
    Responses(SingleIdentities, {Num(0), Num(1), Malformed},
              SingleIdentities, {Num(0), Num(1)})
BackupSnapshotsResponses ==
    Responses(SingleIdentities, {Num(0), Num(3)}, SingleIdentities, {Num(3)})
BackupDetailResponses ==
    {Failed, Answer(<<>>), Answer(<<Sample(DatasetA, TargetN, Num(90))>>),
     Answer(<<Sample(DatasetA, TargetN, Malformed)>>)}

ExtraResponses(q) ==
    IF q = "last_success" THEN BackupLastSuccessResponses
    ELSE IF q = "healthy" THEN BackupHealthyResponses
    ELSE IF q = "snapshots" THEN BackupSnapshotsResponses
    ELSE BackupDetailResponses

\* The model gives one additional metric per run an answer other than the
\* empty vector.
AllowedExtra(q, res) ==
    LET othersEmpty ==
            \A i \in 1..Len(ExtraQueries) :
                ExtraQueries[i] # q => res[ExtraQueries[i]] \in {Pending, Answer(<<>>)}
    IN  { r \in ExtraResponses(q) : r = Answer(<<>>) \/ othersEmpty }

\* The command lines of backup-list: --verify, --json, --service, --repo.
ServiceFilters == {None, Some(<<65>>)}
RepoFilters == {None, Some(<<77>>)}

BackupListArgs ==
    { a \in [verify : BOOLEAN, json : BOOLEAN,
             service : ServiceFilters, repo : RepoFilters] :
        a.json \/ a.service = None \/ a.repo = None }

\* Filters that compare the text as given, letter case included.
ApplyBackupFilters_CaseSensitive(js, a) ==
    LET Named(m) == a.service # None /\ Get(a.service) # EmptyText
                        => Contains(m.job_name, Get(a.service))
        Stored(m) == a.repo # None /\ Get(a.repo) # EmptyText
                        => Contains(m.repository_name, Get(a.repo))
        Keep(m) == Named(m) /\ Stored(m)
    IN  SelectSeq(js, Keep)

\* Lines 580-584 of main: the two filters of the metrics mode.
ApplyBackupFilters(js, a) ==
    LET byService ==
            IF a.service # None /\ Get(a.service) # EmptyText
            THEN LET Keep(m) == Contains(Lower(m.job_name), Lower(Get(a.service)))
                 IN SelectSeq(js, Keep)
            ELSE js
    IN  IF a.repo # None /\ Get(a.repo) # EmptyText
        THEN LET Keep(m) == Contains(Lower(m.repository_name), Lower(Get(a.repo)))
             IN SelectSeq(byService, Keep)
        ELSE byService

\* sorted(metrics, key=lambda x: x['job_name']): a stable insertion sort.
RECURSIVE InsertByJobName(_, _)
InsertByJobName(sorted, m) ==
    IF sorted = <<>> THEN <<m>>
    ELSE IF TextLeq(Head(sorted).job_name, m.job_name)
         THEN <<Head(sorted)>> \o InsertByJobName(Tail(sorted), m)
         ELSE <<m>> \o sorted

RECURSIVE SortByJobName(_)
SortByJobName(js) ==
    IF js = <<>> THEN <<>>
    ELSE InsertByJobName(SortByJobName(SubSeq(js, 1, Len(js) - 1)), js[Len(js)])

\* time_ago of backup-list.py.
backup_time_ago(ts, t) ==
    IF ts = None THEN "Never"
    ELSE LET diff == t - Get(ts) IN
         IF diff < 60 THEN "Just now"
         ELSE IF diff < 3600 THEN ToString(diff \div 60) \o "m ago"
         ELSE IF diff < 86400 THEN ToString(diff \div 3600) \o "h ago"
         ELSE ToString(diff \div 86400) \o "d ago"

\* One row of the table of the metrics mode (lines 614-627): the record, the
\* status mark ("check" for the green mark, "cross" for the red one), the
\* healthy mark and the relative time.
BackupRow(m, t) ==
    [job_name |-> m.job_name, repository_name |-> m.repository_name,
     status |-> m.status, last_success |-> m.last_success,
     snapshots |-> m.snapshots, healthy |-> m.healthy,
     status_mark |-> IF m.status = 1 THEN "check" ELSE "cross",
     healthy_mark |-> IF m.healthy = Some(TRUE) THEN "check"
                      ELSE IF m.healthy = Some(FALSE) THEN "cross" ELSE "-",
     ago |-> backup_time_ago(m.last_success, t)]

RECURSIVE SumSnapshots(_)
SumSnapshots(js) ==
    IF js = <<>> THEN 0
    ELSE (IF Head(js).snapshots = None THEN 0 ELSE Get(Head(js).snapshots))
         + SumSnapshots(Tail(js))

\* Lines 586-597: the JSON document of the metrics mode.
BackupJson(js, t) ==
    [kind |-> "json", mode |-> "prometheus", jobs |-> js,
     summary |-> [total_services |-> Len(js),
                  healthy_services |->
                      Cardinality({ i \in 1..Len(js) : js[i].healthy = Some(TRUE) }),
                  total_snapshots |-> SumSnapshots(js)]]

\* Lines 599-630: the table of the metrics mode, sorted by job name.
BackupTable(js, t) ==
    LET sorted == SortByJobName(js) IN
    [kind |-> "table", mode |-> "prometheus",
     jobs |-> [i \in 1..Len(sorted) |-> BackupRow(sorted[i], t)],
     summary |-> <<>>]

\* "No backup metrics found in Prometheus" (lines 571-577).
NoBackupMetrics == [kind |-> "no-metrics", mode |-> "prometheus", jobs |-> <<>>, summary |-> <<>>]

\* get_backup_metrics_from_prometheus, lines 85-109: the status query.
BL_QueryStatus ==
    /\ tool = BackupList /\ ~args.verify /\ pc = "start"
    /\ \E r \in BackupStatusMetricResponses :
         /\ results' = [results EXCEPT !["status"] = r]
         /\ IF r.st # "ok"
            THEN jobs' = <<>> /\ pc' = "filter" /\ UNCHANGED <<output, exitCode>>
            ELSE IF StatusRaises(r.result)
            THEN jobs' = <<>> /\ pc' = "done" /\ output' = Traceback /\ exitCode' = Some(1)
            ELSE /\ jobs' = MergeBackupStatus(r.result, <<>>)
                 /\ pc' = "extras" /\ UNCHANGED <<output, exitCode>>
    /\ UNCHANGED <<tool, args, now>>

\* Lines 112-141: the next additional metric.
BL_QueryExtra ==
    /\ tool = BackupList /\ pc = "extras"
    /\ LET i == CHOOSE k \in 1..Len(ExtraQueries) :
                    /\ results[ExtraQueries[k]] = Pending
                    /\ \A m \in 1..(k - 1) : results[ExtraQueries[m]] # Pending
           q == ExtraQueries[i]
       IN /\ \E r \in AllowedExtra(q, results) :
                /\ results' = [results EXCEPT ![q] = r]
                /\ jobs' = IF r.st = "ok" THEN MergeExtra(q, r.result, jobs) ELSE jobs
          /\ pc' = IF i = Len(ExtraQueries) THEN "filter" ELSE "extras"
    /\ UNCHANGED <<tool, args, now, output, exitCode>>

\* main, lines 569-636: no metrics, or filter and print.
BL_Output ==
    /\ tool = BackupList /\ ~args.verify /\ pc = "filter"
    /\ IF jobs = <<>>
       THEN jobs' = jobs /\ output' = NoBackupMetrics /\ exitCode' = Some(1)
       ELSE LET kept == ApplyBackupFilters(jobs, args) IN
            /\ jobs' = kept
            /\ output' = IF args.json THEN BackupJson(kept, now) ELSE BackupTable(kept, now)
            /\ exitCode' = Some(0)
    /\ pc' = "done"
    /\ UNCHANGED <<tool, args, now, results>>

(***************************************************************************)
(* backup-list.py --verify: restic on the host, read over SSH.             *)
(***************************************************************************)
\* The texts get_repo_name tests for and answers with.
MntNasBackup == <<47, 109, 110, 116, 47, 110, 97, 115, 45, 98, 97, 99, 107, 117, 112>>
S3Prefix == <<115, 51, 58>>
R2Domain == <<114, 50, 46, 99, 108, 111, 117, 100, 102, 108, 97, 114, 101, 115, 116, 111, 114, 97, 103, 101, 46, 99, 111, 109>>
MntPrefix == <<47, 109, 110, 116, 47>>
NasPrimary == <<110, 97, 115, 45, 112, 114, 105, 109, 97, 114, 121>>
R2Offsite == <<114, 50, 45, 111, 102, 102, 115, 105, 116, 101>>
S3Remote == <<115, 51, 45, 114, 101, 109, 111, 116, 101>>

StartsWith(str, prefix) ==
    Len(prefix) <= Len(str) /\ SubSeq(str, 1, Len(prefix)) = prefix

\* os.path.dirname and os.path.basename (posixpath).
LastSlash(path) ==
    IF \E i \in 1..Len(path) : path[i] = 47
    THEN CHOOSE i \in 1..Len(path) :
            path[i] = 47 /\ \A k \in (i + 1)..Len(path) : path[k] # 47
    ELSE 0

RECURSIVE StripSlashes(_)
StripSlashes(head) ==
    IF head # <<>> /\ head[Len(head)] = 47
    THEN StripSlashes(SubSeq(head, 1, Len(head) - 1))
    ELSE head

dirname(path) ==
    LET head == SubSeq(path, 1, LastSlash(path)) IN
    IF head # <<>> /\ \E i \in 1..Len(head) : head[i] # 47
    THEN StripSlashes(head) ELSE head

basename(path) == SubSeq(path, LastSlash(path) + 1, Len(path))

get_repo_name(url) ==
    IF StartsWith(url, MntNasBackup) THEN NasPrimary
    ELSE IF StartsWith(url, S3Prefix) /\ Contains(url, R2Domain) THEN R2Offsite
    ELSE IF StartsWith(url, S3Prefix) THEN S3Remote
    ELSE IF StartsWith(url, MntPrefix) THEN basename(dirname(url))
    ELSE UnknownText

\* The repositories a service may be configured with: "/mnt/nas-backup/a",
\* "s3:r2.cloudflarestorage.com/b", "s3:x", "/mnt/M/x", "x", and none.
RepositoryUrls ==
    {<<47, 109, 110, 116, 47, 110, 97, 115, 45, 98, 97, 99, 107, 117, 112, 47, 97>>,
     <<115, 51, 58, 114, 50, 46, 99, 108, 111, 117, 100, 102, 108, 97, 114, 101, 115, 116, 111, 114, 97, 103, 101, 46, 99, 111, 109, 47, 98>>,
     <<115, 51, 58, 120>>, <<47, 109, 110, 116, 47, 77, 47, 120>>, <<120>>, EmptyText}

\* A restic-backup unit as the host shows it: the unit name between
\* "restic-backup-" and ".service"; the environment "systemctl show" gives
\* (None: the command failed or showed nothing; else RESTIC_REPOSITORY and
\* whether RESTIC_PASSWORD_FILE is set); what "restic snapshots --json" does
\* ("failed": exit status not 0; "garbage": output that is no JSON; "list":
\* a list of that many snapshots).
ResticService(u, e, r, n) == [unit |-> u, env |-> e, restic |-> r, count |-> n]

Env(url, pw) == [repository |-> url, password_file |-> pw]

ResticOutcomes == {<<"failed", 0>>, <<"garbage", 0>>, <<"list", 0>>, <<"list", 2>>}

RichResticServices ==
    { ResticService(u, e, o[1], o[2]) :
        u \in Datasets,
        e \in {None} \cup { Some(Env(url, pw)) : url \in RepositoryUrls, pw \in BOOLEAN },
        o \in ResticOutcomes }

CoarseResticServices ==
    { ResticService(u, Some(Env(url, TRUE)), o[1], o[2]) :
        u \in Datasets,
        url \in {<<47, 109, 110, 116, 47, 110, 97, 115, 45, 98, 97, 99, 107, 117, 112, 47, 97>>, <<47, 109, 110, 116, 47, 77, 47, 120>>},
        o \in {<<"failed", 0>>, <<"list", 2>>} }

RECURSIVE ResticServiceLists(_)
ResticServiceLists(n) ==
    IF n = 0 THEN {<<>>}
    ELSE { Append(v, x) : v \in ResticServiceLists(n - 1), x \in CoarseResticServices }

\* What the unit listing shows: the command fails, or it lists the units.
DiscoverResticResponses ==
    {Failed}
    \cup { Answer(<<>>) }
    \cup { Answer(<<x>>) : x \in RichResticServices }
    \cup UNION { { Answer(v) : v \in { w \in ResticServiceLists(n) : DistinctUnits(w) } } :
                 n \in 2..MaxSamples }

\* verify_snapshots, lines 299-349: the record of one service.
VerifyResult(job, repo, err, n, ok) ==
    [job_name |-> job, repo_name |-> repo, error |-> err, snapshots |-> n,
     verified |-> ok]

\* A verification that gives no record when the restic command fails.
verify_snapshots_FailureDropsRecord(svc) ==
    LET env == Get(svc.env)
        repo_name == get_repo_name(env.repository) IN
    IF env.repository = EmptyText \/ ~env.password_file \/ svc.restic = "failed"
    THEN None
    ELSE Some(VerifyResult(svc.unit, repo_name, None,
                           IF svc.restic = "list" THEN svc.count ELSE 0, TRUE))

verify_snapshots(svc) ==
    LET env == Get(svc.env)
        repo_name == get_repo_name(env.repository) IN
    IF env.repository = EmptyText \/ ~env.password_file THEN None
    ELSE IF svc.restic = "failed"
    THEN Some(VerifyResult(svc.unit, repo_name, Some("Failed to list snapshots"), 0, FALSE))
    ELSE Some(VerifyResult(svc.unit, repo_name, None,
                           IF svc.restic = "list" THEN svc.count ELSE 0, TRUE))

\* The loop of main, lines 473-496: the service filter, the environment, the
\* repository filter, the snapshots.
RECURSIVE VerifyServices(_, _)
VerifyServices(svcs, a) ==
    IF svcs = <<>> THEN <<>>
    ELSE LET svc == Head(svcs)
             rest == VerifyServices(Tail(svcs), a) IN
         IF a.service # None /\ Get(a.service) # EmptyText
            /\ ~Contains(Lower(svc.unit), Lower(Get(a.service)))
         THEN rest
         ELSE IF svc.env = None THEN rest
         ELSE IF a.repo # None /\ Get(a.repo) # EmptyText
                 /\ ~Contains(Lower(get_repo_name(Get(svc.env).repository)),
                              Lower(Get(a.repo)))
         THEN rest
         ELSE IF verify_snapshots(svc) = None THEN rest
         ELSE <<Get(verify_snapshots(svc))>> \o rest

RECURSIVE SumCounts(_)
SumCounts(rs) ==
    IF rs = <<>> THEN 0 ELSE Head(rs).snapshots + SumCounts(Tail(rs))

\* Lines 498-562: the JSON document, or the panels and the summary.
VerifyReport(rs, a) ==
    [kind |-> IF a.json THEN "json" ELSE "table", mode |-> "verify", jobs |-> rs,
     summary |->
        IF a.json
        THEN [total_services |-> Len(rs),
              verified_services |-> Cardinality({ i \in 1..Len(rs) : rs[i].verified }),
              total_snapshots |-> SumCounts(rs)]
        ELSE [total_services |-> Len(rs),
              verified_services |-> Cardinality({ i \in 1..Len(rs) : rs[i].verified })]]

\* "No Restic backup services found" (lines 463-468).
NoServices == [kind |-> "no-services", mode |-> "verify", jobs |-> <<>>, summary |-> <<>>]

\* A warm-up whose failure is not tested: the run goes on to the discovery.
BL_Warmup_FailureIgnored ==
    /\ tool = BackupList /\ args.verify /\ pc = "start"
    /\ \E ok \in BOOLEAN :
         results' = [results EXCEPT !["warmup"] = IF ok THEN Answer(<<>>) ELSE Failed]
    /\ pc' = "discover"
    /\ UNCHANGED <<tool, args, now, jobs, output, exitCode>>

\* warmup_ssh_connection and its test in main, lines 454-459.
BL_Warmup ==
    /\ tool = BackupList /\ args.verify /\ pc = "start"
    /\ \E ok \in BOOLEAN :
         /\ results' = [results EXCEPT !["warmup"] = IF ok THEN Answer(<<>>) ELSE Failed]
         /\ IF ok
            THEN pc' = "discover" /\ UNCHANGED <<output, exitCode>>
            ELSE pc' = "done" /\ output' = ConnectError /\ exitCode' = Some(1)
    /\ UNCHANGED <<tool, args, now, jobs>>

\* discover_restic_services and its test in main, lines 461-468.
BL_Discover ==
    /\ tool = BackupList /\ pc = "discover"
    /\ \E r \in DiscoverResticResponses :
         /\ results' = [results EXCEPT !["discover"] = r]
         /\ IF r.result = <<>>
            THEN pc' = "done" /\ output' = NoServices /\ exitCode' = Some(1)
            ELSE pc' = "services" /\ UNCHANGED <<output, exitCode>>
    /\ UNCHANGED <<tool, args, now, jobs>>

\* Lines 473-562 and 636: verify each service, print, exit status 0.
BL_VerifyServices ==
    /\ tool = BackupList /\ pc = "services"
    /\ jobs' = VerifyServices(results["discover"].result, args)
    /\ output' = VerifyReport(jobs', args)
    /\ exitCode' = Some(0)
    /\ pc' = "done"
    /\ UNCHANGED <<tool, args, now, results>>

BackupListQueries(a) ==
    IF a.verify THEN {"warmup", "discover"} ELSE BackupListQueryNames

(***************************************************************************)
(* A run.                                                                  *)
(***************************************************************************)
Init ==
    /\ tool \in {SyncoidList, BackupStatus, BackupList}
    /\ args \in IF tool = SyncoidList THEN SyncoidListArgs
               ELSE IF tool = BackupList THEN BackupListArgs
               ELSE {NoArgs}
    /\ pc = "start"
    /\ now \in Clock
    /\ results = IF tool = SyncoidList
                 THEN [q \in SyncoidListQueries(args) |-> Pending]
                 ELSE IF tool = BackupList
                 THEN [q \in BackupListQueries(args) |-> Pending]
                 ELSE [q \in QueryNames |-> Pending]
    /\ jobs = <<>>
    /\ output = NoOutput
    /\ exitCode = None

Next ==
    \/ SL_QueryInfo
    \/ SL_QueryStatus
    \/ SL_QueryLastSuccess
    \/ SL_Warmup
    \/ SL_Verify
    \/ SL_Output
    \/ BS_Query
    \/ BS_Render
    \/ BL_QueryStatus
    \/ BL_QueryExtra
    \/ BL_Output
    \/ BL_Warmup
    \/ BL_Discover
    \/ BL_VerifyServices

Spec == Init /\ [][Next]_vars

(***************************************************************************)
(* Properties.                                                             *)
(***************************************************************************)
\* The run ended and printed its report (it did not end on a traceback or on
\* a failed connection).
SyncoidListReported ==
    tool = SyncoidList /\ pc = "done" /\ output.kind \in {"json", "table", "no-jobs"}
BackupStatusReported ==
    tool = BackupStatus /\ pc = "done" /\ output.kind \in {"table", "no-metrics"}

RowsOf(sys) == { i \in 1..Len(output.jobs) : output.jobs[i].system = sys }

\* The age of a syncoid-list row, if it has a last success.
AgeOf(row) == now - Get(row.last_success)

\* C1: in every tool a job with neither a status nor a last-success age is
\* reported, and reported UNKNOWN: a syncoid-list record with no status and no
\* last success, and a pgBackRest repository that the repo-info query returned
\* and the age query did not.
C1_AbsentSignalsAreUnknown ==
    /\ SyncoidListReported =>
         \A i \in 1..Len(jobs) :
            (jobs[i].status = None /\ jobs[i].last_success = None) =>
                \E k \in 1..Len(output.jobs) :
                    /\ output.jobs[k].dataset = jobs[i].dataset
                    /\ output.jobs[k].status_text = "UNKNOWN"
    /\ BackupStatusReported =>
         LET info == results["pgbackrest_repo_info"].result
             ages == results["pgbackrest_age"].result
         IN  \A i \in 1..Len(info) :
                ~HasName(ages, info[i].name) =>
                    \E k \in RowsOf("pgBackRest") :
                        /\ output.jobs[k].name = info[i].name
                        /\ output.jobs[k].status_text = "UNKNOWN"

\* C2: a job whose status code is 0 is reported FAILED whatever its age,
\* absent included: every syncoid-list record with status 0, and in
\* backup-status every Syncoid or Restic job (dataset / job name and target)
\* whose status sample is 0, has a row, and its rows say FAILED.
C2_FailedStatusIsFailed ==
    /\ SyncoidListReported =>
         \A i \in 1..Len(jobs) :
            jobs[i].status = Some(0) =>
                \E k \in 1..Len(output.jobs) :
                    /\ output.jobs[k].dataset = jobs[i].dataset
                    /\ output.jobs[k].status_text = "FAILED"
    /\ BackupStatusReported =>
         \A q \in {"syncoid_status", "restic_status"} :
            \A i \in 1..Len(results[q].result) :
                LET s == results[q].result[i]
                    mine == { k \in RowsOf(Subsystem(q)) :
                                /\ output.jobs[k].name = s.name
                                /\ output.jobs[k].target = s.target }
                IN  s.value = Num(0) =>
                        /\ mine # {}
                        /\ \A k \in mine : output.jobs[k].status_text = "FAILED"

\* C3: a pgBackRest row (one per age sample, so one per backup type of a
\* repository) says ERROR "Repository error" exactly when the repo-error query
\* returned a sample with the row's repo key, whatever the age; the other
\* rows carry the staleness verdict of their age.
C3_RepoErrorIsError ==
    BackupStatusReported =>
        LET ages == results["pgbackrest_age"].result
            errors == results["pgbackrest_repo_errors"].result
        IN  /\ Cardinality(RowsOf("pgBackRest")) = Len(ages)
            /\ \A i \in 1..Len(ages) :
                 \E k \in RowsOf("pgBackRest") :
                    /\ output.jobs[k].name = ages[i].name
                    /\ output.jobs[k].target = ages[i].target
                    /\ output.jobs[k].age = ages[i].value.v
            /\ \A k \in RowsOf("pgBackRest") :
                 LET row == output.jobs[k] IN
                 IF \E i \in 1..Len(errors) : errors[i].name = row.name
                 THEN row.status_text = "ERROR" /\ row.details = "Repository error"
                 ELSE IF row.age > 26 * 3600
                      THEN row.status_text = "STALE" /\ row.details = "Last success > 26h ago"
                      ELSE row.status_text = "OK" /\ row.details = "Healthy"

\* Two backup types of one repository, one of them 10 seconds old, both ERROR.
C3_Witness ==
    /\ BackupStatusReported
    /\ \E k1, k2 \in RowsOf("pgBackRest") :
         /\ output.jobs[k1].name = output.jobs[k2].name
         /\ output.jobs[k1].target # output.jobs[k2].target
         /\ output.jobs[k1].age = 10
         /\ output.jobs[k1].status_text = "ERROR"
         /\ output.jobs[k2].status_text = "ERROR"

\* C4: a replication job whose status code is 2 is reported RUNNING whatever
\* its age, absent included: every syncoid-list record with status 2, and in
\* backup-status every Syncoid job (dataset and target) whose status sample is
\* 2, has a row, and its rows say RUNNING.
C4_RunningStatusIsRunning ==
    /\ SyncoidListReported =>
         \A i \in 1..Len(jobs) :
            jobs[i].status = Some(2) =>
                \E k \in 1..Len(output.jobs) :
                    /\ output.jobs[k].dataset = jobs[i].dataset
                    /\ output.jobs[k].status_text = "RUNNING"
    /\ BackupStatusReported =>
         \A i \in 1..Len(results["syncoid_status"].result) :
            LET s == results["syncoid_status"].result[i]
                mine == { k \in RowsOf("Syncoid") :
                            /\ output.jobs[k].name = s.name
                            /\ output.jobs[k].target = s.target }
            IN  s.value = Num(2) =>
                    /\ mine # {}
                    /\ \A k \in mine : output.jobs[k].status_text = "RUNNING"

\* The rows of a report whose job has status code 1 and a known age, as
\* <<age in seconds, threshold of the tool in seconds, verdict>>.
SuccessRows ==
    IF SyncoidListReported
    THEN { <<AgeOf(output.jobs[k]), 2 * 3600, output.jobs[k].status_text>> :
             k \in { i \in 1..Len(output.jobs) :
                        /\ output.jobs[i].status = Some(1)
                        /\ output.jobs[i].last_success # None } }
    ELSE IF BackupStatusReported
    THEN { <<output.jobs[k].age, 26 * 3600, output.jobs[k].status_text>> :
             k \in { i \in 1..Len(output.jobs) : output.jobs[i].status = Some(1) } }
    ELSE {}

\* C5 (as stated): with status code 1 an age below the threshold is OK and an
\* age at or above the threshold is STALE.
C5_StaleAtThreshold ==
    \A r \in SuccessRows : r[3] = IF r[1] >= r[2] THEN "STALE" ELSE "OK"

\* C5 (amended): with status code 1 an age at or below the threshold the tool
\* applies (7200 s in syncoid-list, 93600 s in backup-status) is OK and an age
\* above it is STALE; an age equal to the threshold is OK.
C5_StaleAboveThreshold ==
    \A r \in SuccessRows : r[3] = IF r[1] > r[2] THEN "STALE" ELSE "OK"

\* A backup-status row with status 1 whose age is exactly 93600 s, reported OK.
C5_Witness ==
    /\ BackupStatusReported
    /\ \E k \in 1..Len(output.jobs) :
         /\ output.jobs[k].status = Some(1)
         /\ output.jobs[k].age = 26 * 3600
         /\ output.jobs[k].status_text = "OK"

\* The rows of a syncoid-list report whose job has no last success.
NoTimestampRows ==
    IF SyncoidListReported
    THEN { k \in 1..Len(output.jobs) : output.jobs[k].last_success = None }
    ELSE {}

SubsystemThreshold(sys) == IF sys = "Syncoid" THEN 2 * 3600 ELSE 26 * 3600

\* C7: a replication or snapshot-backup job with an age and no status code is
\* STALE when its age exceeds the threshold of its subsystem and OK otherwise,
\* in syncoid-list and in backup-status.
C7_AgeOnlyIsStalenessOnly ==
    /\ SyncoidListReported =>
         \A k \in 1..Len(output.jobs) :
            LET row == output.jobs[k] IN
            (row.status = None /\ row.last_success # None) =>
                row.status_text =
                    IF AgeOf(row) > SubsystemThreshold("Syncoid") THEN "STALE" ELSE "OK"
    /\ BackupStatusReported =>
         \A k \in RowsOf("Syncoid") \cup RowsOf("Restic") :
            LET row == output.jobs[k] IN
            row.status = None =>
                row.status_text =
                    IF row.age > SubsystemThreshold(row.system) THEN "STALE" ELSE "OK"

\* The samples of a vector that carry a name label.
NamesIn(v) == { v[i].name : i \in 1..Len(v) }

\* The datasets the info query returned and the two other queries did not.
InfoOnlyDatasets ==
    IF tool = SyncoidList /\ ~args.verify /\ results["info"].st = "ok"
    THEN (NamesIn(results["info"].result) \ {EmptyText})
            \ (NamesIn(results["status"].result)
                 \cup NamesIn(results["last_success"].result))
    ELSE {}

C9_ThresholdBySubsystem ==
    /\ SyncoidListReported =>
         \A k \in 1..Len(output.jobs) :
            LET row == output.jobs[k] IN
            (row.status = Some(1) /\ row.last_success # None) =>
                (row.status_text = "STALE" <=> AgeOf(row) > SubsystemThreshold("Syncoid"))
    /\ BackupStatusReported =>
         \A k \in 1..Len(output.jobs) :
            LET row == output.jobs[k] IN
            (row.status = Some(1) \/ (row.system = "pgBackRest" /\ row.status_text # "ERROR")) =>
                (row.status_text = "STALE" <=> row.age > SubsystemThreshold(row.system))

\* The verdict (state and detail) of a printed job.
VerdictOf(row) == <<row.status_text, row.details>>

\* The status codes and last successes either path can produce.
StatusCodes == {None, Some(0), Some(1), Some(2), Some(3)}
LastSuccesses ==
    {None, Some(Epoch - 10), Some(Epoch - 2 * 3600), Some(Epoch - 2 * 3600 - 1),
     Some(Epoch - 9999), Some(Epoch + 60)}

\* C10: the verdict of a job does not depend on the path its signals came by:
\* for every pair (status, last success) and the time of the run, the report
\* of a metrics run and the report of a --verify run give the job the same
\* verdict, in the JSON and in the table (the time of a run is fixed when it
\* starts); and every row of the report of this run has the verdict the other
\* path's report gives its pair.
C10_ProvenanceNeverChangesVerdict ==
    LET Via(mode, j) ==
            <<VerdictOf(print_json_output(<<j>>, mode, now).jobs[1]),
              VerdictOf(print_table_output(<<j>>, mode, now).jobs[1])>>
    IN  /\ (tool = SyncoidList /\ pc = "start") =>
             \A s \in StatusCodes, l \in LastSuccesses :
                Via("prometheus", Job(DatasetA, TargetN, s, l))
                    = Via("verify", Job(DatasetA, TargetN, s, l))
        /\ (SyncoidListReported /\ output.kind \in {"json", "table"}) =>
             LET other == IF output.mode = "verify" THEN "prometheus" ELSE "verify"
                 js == [k \in 1..Len(output.jobs) |->
                          Job(output.jobs[k].dataset, output.jobs[k].target_host,
                              output.jobs[k].status, output.jobs[k].last_success)]
                 Verdicts(rows) ==
                     { <<rows[k].dataset, VerdictOf(rows[k])>> : k \in 1..Len(rows) }
                 here == Verdicts(output.jobs)
             IN  /\ here = Verdicts(print_json_output(js, other, now).jobs)
                 /\ here = Verdicts(print_table_output(js, other, now).jobs)

\* A --verify run printed a job that succeeded 9999 seconds ago as STALE in
\* its JSON report.
C10_Witness ==
    /\ SyncoidListReported /\ args.verify /\ output.kind = "json"
    /\ \E k \in 1..Len(output.jobs) :
         /\ output.jobs[k].status = Some(1)
         /\ output.jobs[k].last_success = Some(Epoch - 9999)
         /\ output.jobs[k].status_text = "STALE"

\* The job records syncoid-list acquired, before the filters: what the
\* answers of the run merge to.
SyncoidAcquired ==
    IF args.verify
    THEN get_syncoid_verify_data(results["discover"].result)
    ELSE IF results["info"].st # "ok" THEN <<>>
    ELSE MergeLastSuccess(results["last_success"].result,
             MergeStatus(results["status"].result,
                 MergeInfo(results["info"].result, <<>>)))

\* The numbers the samples of a vector give for a name.
NumbersFor(v, name) ==
    { v[i].value.v : i \in { k \in 1..Len(v) : v[k].name = name /\ v[k].value.num } }

\* C11: merging never makes up a signal: in the metrics mode of syncoid-list
\* and of backup-list a status or last success in a job record is a number
\* that a sample of that job carried; a sample without a value, like no sample
\* at all, leaves the field absent and never gives the number 0.
C11_NoFabricatedSignal ==
    /\ (tool = SyncoidList /\ ~args.verify /\ pc \in {"filter", "done"}) =>
         \A i \in 1..Len(jobs) :
            /\ jobs[i].status # None =>
                 Get(jobs[i].status) \in NumbersFor(results["status"].result, jobs[i].dataset)
            /\ jobs[i].last_success # None =>
                 Get(jobs[i].last_success)
                    \in NumbersFor(results["last_success"].result, jobs[i].dataset)
    /\ (tool = BackupList /\ ~args.verify /\ pc \in {"filter", "done"}) =>
         \A i \in 1..Len(jobs) :
            /\ jobs[i].status \in NumbersFor(results["status"].result, jobs[i].job_name)
            /\ jobs[i].last_success # None =>
                 Get(jobs[i].last_success)
                    \in NumbersFor(results["last_success"].result, jobs[i].job_name)

\* A result vector without its samples whose value is no number.
WellFormed(v) == LET Parses(x) == x.value # Malformed IN SelectSeq(v, Parses)

\* C12: a value that cannot be parsed is dropped and nothing else changes: no
\* run ends on a traceback, and the job records of syncoid-list and of
\* backup-list are the ones the answers give without their malformed samples.
C12_MalformedIsDropped ==
    /\ pc = "done" => output.kind # "traceback"
    /\ (tool = SyncoidList /\ ~args.verify /\ pc = "filter" /\ results["info"].st = "ok") =>
         jobs = MergeLastSuccess(WellFormed(results["last_success"].result),
                    MergeStatus(WellFormed(results["status"].result),
                        MergeInfo(results["info"].result, <<>>)))
    /\ (tool = BackupList /\ ~args.verify /\ pc = "extras") =>
         \A i \in 1..Len(ExtraQueries) :
            results[ExtraQueries[i]].st = "ok" =>
                MergeExtra(ExtraQueries[i], results[ExtraQueries[i]].result, jobs)
                    = MergeExtra(ExtraQueries[i],
                                 WellFormed(results[ExtraQueries[i]].result), jobs)

\* C13: a run in which the discovery query answered and a signal query failed
\* still reports every discovered job, and the failure makes none of them OK
\* (the jobs it leaves without a signal are UNKNOWN): in syncoid-list every
\* dataset of the info answer has a row and no row says OK when the status or
\* the last-success query failed (no filter given), in backup-status every
\* Syncoid or Restic job of the age answer has a row and no row of the
\* subsystem says OK when the status query of the subsystem failed.
C13_FailedQueryIsUnknown ==
    /\ ( /\ SyncoidListReported /\ ~args.verify
         /\ args.dataset = None /\ args.target = None
         /\ results["info"].st = "ok"
         /\ Failed \in {results["status"], results["last_success"]} ) =>
         /\ \A d \in NamesIn(results["info"].result) \ {EmptyText} :
               \E k \in 1..Len(output.jobs) : output.jobs[k].dataset = d
         /\ \A k \in 1..Len(output.jobs) : output.jobs[k].status_text # "OK"
    /\ BackupStatusReported =>
         \A q \in {"syncoid_status", "restic_status"} :
            LET ages == results[IF q = "syncoid_status" THEN "syncoid_age" ELSE "restic_age"]
            IN  (results[q] = Failed /\ ages.st = "ok") =>
                   /\ \A i \in 1..Len(ages.result) :
                         \E k \in RowsOf(Subsystem(q)) :
                            output.jobs[k].name = ages.result[i].name
                   /\ \A k \in RowsOf(Subsystem(q)) :
                         output.jobs[k].status_text # "OK"

\* The job records backup-list acquired from the store, before the filters.
RECURSIVE MergeExtras(_, _)
MergeExtras(n, js) ==
    IF n = 0 THEN js
    ELSE LET q == ExtraQueries[n]
             before == MergeExtras(n - 1, js)
         IN  IF results[q].st = "ok" THEN MergeExtra(q, results[q].result, before)
             ELSE before

BackupAcquired ==
    IF results["status"].st # "ok" THEN <<>>
    ELSE MergeExtras(Len(ExtraQueries), MergeBackupStatus(results["status"].result, <<>>))

\* What a run prints, and how it exits, when it found no job at all.
NothingFound ==
    IF tool = SyncoidList
    THEN IF args.json
         THEN <<print_json_output(<<>>, IF args.verify THEN "verify" ELSE "prometheus", now),
                Some(0)>>
         ELSE <<NoJobsMessage, Some(1)>>
    ELSE <<NoBackupMetrics, Some(1)>>

\* The run found jobs and the filters kept none of them.
SyncoidFilteredEmpty == SyncoidListReported /\ SyncoidAcquired # <<>> /\ jobs = <<>>
BackupFilteredEmpty ==
    /\ tool = BackupList /\ ~args.verify /\ pc = "done" /\ output.kind # "traceback"
    /\ BackupAcquired # <<>> /\ jobs = <<>>

\* C14: a run that found jobs and whose filters removed all of them exits
\* with status 0, and what it prints or its exit status differs from those of
\* a run that found no job (which end as NothingFound says): syncoid-list and
\* backup-list, table and JSON.
C14_FilteredEmptyIsNotNothingFound ==
    /\ (SyncoidListReported /\ SyncoidAcquired = <<>>) => <<output, exitCode>> = NothingFound
    /\ SyncoidFilteredEmpty =>
         exitCode = Some(0) /\ <<output, exitCode>> # NothingFound
    /\ ( /\ tool = BackupList /\ ~args.verify /\ pc = "done" /\ output.kind # "traceback"
         /\ BackupAcquired = <<>> ) => <<output, exitCode>> = NothingFound
    /\ BackupFilteredEmpty =>
         exitCode = Some(0) /\ <<output, exitCode>> # NothingFound

\* C15: when a dataset filter is given and no job the run found matches it,
\* syncoid-list prints its report with an empty job list and every count of
\* the summary zero, and exits with status 0.
C15_NoMatchIsEmptyResult ==
    ( /\ SyncoidListReported /\ args.dataset # None
      /\ SyncoidAcquired # <<>>
      /\ \A i \in 1..Len(SyncoidAcquired) :
            ~Contains(Lower(SyncoidAcquired[i].dataset), Lower(Get(args.dataset))) ) =>
        /\ exitCode = Some(0)
        /\ output.kind \in {"json", "table"}
        /\ output.jobs = <<>>
        /\ \A f \in DOMAIN output.summary : output.summary[f] = 0

\* The verdict of each row of a report, computed from the row's own record.
RowVerdicts ==
    [k \in 1..Len(output.jobs) |->
        get_status_display(output.jobs[k].status, output.jobs[k].last_success, now).text]

\* C16: the filters read the identity fields only and run before the summary:
\* with the filters of the run, whether a job is kept does not change when its
\* signals are replaced by any others; every count of the summary is the
\* number of printed jobs with that verdict; and the report is the one of a
\* run that acquired the kept jobs only.  syncoid-list (both paths), and
\* backup-list with its service counts.
C16_FiltersReadIdentityOnly ==
    /\ (tool = SyncoidList /\ pc = "start") =>
         \A d \in Datasets, t \in Targets :
            LET Kept(j) == ApplyFilters(<<j>>, args) # <<>>
                bare == Kept(Job(d, t, None, None))
            IN  \A s \in StatusCodes, l \in LastSuccesses : Kept(Job(d, t, s, l)) = bare
    /\ (SyncoidListReported /\ output.kind \in {"json", "table"}) =>
         LET Kept(j) == ApplyFilters(<<j>>, args) # <<>>
             only == SelectSeq(SyncoidAcquired, Kept)
             verdicts == RowVerdicts
             Count(text) == Cardinality({ k \in 1..Len(verdicts) : verdicts[k] = text })
         IN  /\ output.summary.total = Len(output.jobs)
             /\ output.summary.ok = Count("OK")
             /\ output.summary.running = Count("RUNNING")
             /\ output.summary.stale = Count("STALE")
             /\ output.summary.failed = Count("FAILED")
             /\ \A k \in 1..Len(output.jobs) :
                   output.jobs[k].status_text \in
                       {"OK", "RUNNING", "STALE", "FAILED", "UNKNOWN"}
                   /\ output.jobs[k].status_text = verdicts[k]
             /\ output = IF args.json
                         THEN print_json_output(only, output.mode, now)
                         ELSE print_table_output(only, output.mode, now)
    /\ (tool = BackupList /\ ~args.verify /\ pc = "start") =>
         \A d \in Datasets, t \in Targets :
            LET Kept(m) == ApplyBackupFilters(<<m>>, args) # <<>>
                bare == Kept(BackupJob(d, t, 0))
            IN  \A s \in {0, 1}, h \in {None, Some(TRUE), Some(FALSE)} :
                   Kept([BackupJob(d, t, s) EXCEPT !.healthy = h]) = bare
    /\ (tool = BackupList /\ ~args.verify /\ pc = "done" /\ output.kind \in {"json", "table"}) =>
         LET Kept(m) == ApplyBackupFilters(<<m>>, args) # <<>>
             only == SelectSeq(BackupAcquired, Kept)
         IN  /\ args.json =>
                   /\ output.summary.total_services = Len(output.jobs)
                   /\ output.summary.healthy_services =
                         Cardinality({ k \in 1..Len(output.jobs) :
                                         output.jobs[k].healthy = Some(TRUE) })
             /\ output = IF args.json THEN BackupJson(only, now) ELSE BackupTable(only, now)

\* A run with a filter that kept one job and dropped another: syncoid-list
\* printed the summary of the kept job alone.
C16_Witness ==
    /\ SyncoidListReported /\ output.kind \in {"json", "table"}
    /\ args.dataset # None
    /\ Len(SyncoidAcquired) = 2 /\ Len(output.jobs) = 1
    /\ output.summary.total = 1
    /\ \E i \in 1..2 :
          /\ SyncoidAcquired[i].dataset # output.jobs[1].dataset
          /\ get_status_display(SyncoidAcquired[i].status,
                                SyncoidAcquired[i].last_success, now).text
               # output.jobs[1].status_text

\* The filter text occurs in the field when letter case is ignored: some
\* slice of the field reads as the filter text once both are folded to one
\* case.  A filter that is not given matches every field.
FoldCase(s) == [i \in 1..Len(s) |-> IF s[i] \in 65..90 THEN s[i] + 32 ELSE s[i]]
Matches(filter, field) ==
    \/ filter = None
    \/ LET text == FoldCase(Get(filter)) IN
       \E a \in 0..(Len(field) - Len(text)) :
          FoldCase(SubSeq(field, a + 1, a + Len(text))) = text

\* The services of a backup-list --verify run that have an environment with a
\* repository and a password file, hence a record to print.
VerifiableServices ==
    LET Usable(svc) == svc.env # None /\ verify_snapshots(svc) # None
    IN  SelectSeq(results["discover"].result, Usable)

\* C17: a job is printed if and only if every filter given is, letter case
\* ignored, a substring of its field: --dataset of the dataset and --target of
\* the target host in syncoid-list (metrics and --verify), --service of the
\* job name and --repo of the repository name in backup-list (metrics), and of
\* the unit name and the repository name of the unit in backup-list --verify.
C17_KeptIffEveryFilterMatches ==
    /\ SyncoidListReported =>
         LET acq == SyncoidAcquired IN
         \A i \in 1..Len(acq) :
            LET j == acq[i] IN
            (\E k \in 1..Len(output.jobs) :
                /\ output.jobs[k].dataset = j.dataset
                /\ output.jobs[k].target_host = j.target_host)
            <=> (Matches(args.dataset, j.dataset) /\ Matches(args.target, j.target_host))
    /\ (tool = BackupList /\ ~args.verify /\ pc = "done" /\ output.kind \in {"json", "table"}) =>
         LET acq == BackupAcquired IN
         \A i \in 1..Len(acq) :
            LET m == acq[i] IN
            (\E k \in 1..Len(output.jobs) :
                /\ output.jobs[k].job_name = m.job_name
                /\ output.jobs[k].repository_name = m.repository_name)
            <=> (Matches(args.service, m.job_name) /\ Matches(args.repo, m.repository_name))
    /\ (tool = BackupList /\ args.verify /\ pc = "done" /\ output.kind \in {"json", "table"}) =>
         LET usable == VerifiableServices IN
         \A i \in 1..Len(usable) :
            LET svc == usable[i]
                repo == get_repo_name(Get(svc.env).repository) IN
            (\E k \in 1..Len(output.jobs) :
                /\ output.jobs[k].job_name = svc.unit
                /\ output.jobs[k].repo_name = repo)
            <=> (Matches(args.service, svc.unit) /\ Matches(args.repo, repo))

\* Both filters given in capitals: backup-list printed the job "a" of the
\* repository "m" and left out the other job it acquired.
C17_Witness ==
    /\ tool = BackupList /\ ~args.verify /\ pc = "done" /\ output.kind = "json"
    /\ args.service = Some(<<65>>) /\ args.repo = Some(<<77>>)
    /\ Len(BackupAcquired) = 2 /\ Len(output.jobs) = 1
    /\ output.jobs[1].job_name = DatasetA /\ output.jobs[1].repository_name = TargetM

\* C18: every printed job list is in ascending order of the identity name,
\* whatever order the answers had: the rows of syncoid-list by dataset, in the
\* table and in the JSON document, and the rows of each section of
\* backup-status by their key (dataset, job name, or repo key then type).
C18_StableOrder ==
    /\ (SyncoidListReported /\ output.kind \in {"json", "table"}) =>
         \A k \in 1..(Len(output.jobs) - 1) :
            TextLeq(output.jobs[k].dataset, output.jobs[k + 1].dataset)
    /\ (BackupStatusReported /\ output.kind = "table") =>
         \A k \in 1..(Len(output.jobs) - 1) :
            output.jobs[k].system = output.jobs[k + 1].system =>
                KeyLeq(output.jobs[k].key, output.jobs[k + 1].key)

\* The samples of an answer that carry the given identity, name and target.
OwnSamples(v, name, target) ==
    LET Own(x) == x.name = name /\ x.target = target IN SelectSeq(v, Own)

\* C19: the verdict of a job is computed from the job's own signals: every
\* Syncoid or Restic row of backup-status is the row its age sample gives with
\* the status samples of its own identity (name and target) alone, and every
\* record of syncoid-list is what the status and last-success samples of its
\* own identity (dataset and target host) alone merge to.
C19_VerdictFromOwnSignalsOnly ==
    /\ (BackupStatusReported /\ output.kind = "table") =>
         \A k \in RowsOf("Syncoid") \cup RowsOf("Restic") :
            LET row == output.jobs[k]
                age == Sample(row.name, row.target, Num(row.age))
                q   == IF row.system = "Syncoid" THEN "syncoid_status" ELSE "restic_status"
                own == OwnSamples(results[q].result, row.name, row.target)
            IN  row = IF row.system = "Syncoid" THEN SyncoidRow(age, own)
                      ELSE ResticRow(age, own)
    /\ (tool = SyncoidList /\ ~args.verify /\ pc = "filter" /\ results["info"].st = "ok") =>
         \A i \in 1..Len(jobs) :
            LET j == jobs[i]
                st == OwnSamples(results["status"].result, j.dataset, j.target_host)
                ls == OwnSamples(results["last_success"].result, j.dataset, j.target_host)
            IN  <<j>> = MergeLastSuccess(ls, MergeStatus(st,
                            <<Job(j.dataset, j.target_host, None, None)>>))

\* C20: a verdict is printed only when every query of the run has returned,
\* with an answer or a failure, and it is the verdict of the record with both
\* signals merged: in syncoid-list and backup-status no query is pending once
\* the report has a row; every row of a syncoid-list metrics report carries
\* the status and the last success the three answers merge to for its dataset
\* and the verdict of that pair; every Syncoid or Restic row of backup-status
\* carries a status when the status answer has a sample of its name.
C20_ClassifiedAfterAllQueries ==
    /\ (tool \in {SyncoidList, BackupStatus} /\ output.jobs # <<>>) =>
         \A q \in DOMAIN results : results[q] # Pending
    /\ (SyncoidListReported /\ ~args.verify /\ output.jobs # <<>>) =>
         LET acq == SyncoidAcquired IN
         \A k \in 1..Len(output.jobs) :
            \E i \in 1..Len(acq) :
               LET j == acq[i] IN
               /\ output.jobs[k].dataset = j.dataset
               /\ output.jobs[k].status = j.status
               /\ output.jobs[k].last_success = j.last_success
               /\ VerdictOf(output.jobs[k])
                    = LET d == get_status_display(j.status, j.last_success, now)
                      IN  <<d.text, d.details>>
    /\ (BackupStatusReported /\ output.kind = "table") =>
         \A k \in RowsOf("Syncoid") \cup RowsOf("Restic") :
            LET q == IF output.jobs[k].system = "Syncoid"
                     THEN "syncoid_status" ELSE "restic_status"
            IN  HasName(results[q].result, output.jobs[k].name)
                    <=> output.jobs[k].status # None

\* syncoid-list printed a job STALE from a status 1 and a last success that
\* two different queries returned.
C20_Witness ==
    /\ SyncoidListReported /\ ~args.verify /\ output.jobs # <<>>
    /\ results["status"].st = "ok" /\ results["last_success"].st = "ok"
    /\ \E k \in 1..Len(output.jobs) :
         /\ output.jobs[k].status = Some(1)
         /\ output.jobs[k].last_success # None
         /\ output.jobs[k].status_text = "STALE"
         /\ 1 \in NumbersFor(results["status"].result, output.jobs[k].dataset)
         /\ Get(output.jobs[k].last_success)
               \in NumbersFor(results["last_success"].result, output.jobs[k].dataset)

\* C21: job identities are unique and none is merged away: no two records of
\* a run have the same (name, target or repository), and every discovered
\* identity has its own record: each named sample of the info answer of
\* syncoid-list and of the status answer of backup-list has a record with its
\* name and its target or repository, and each age sample of backup-status has
\* a row with its name and target.
C21_IdentitiesStaySeparate ==
    /\ (tool = SyncoidList /\ ~args.verify /\ pc = "filter" /\ results["info"].st = "ok") =>
         LET info == results["info"].result IN
         /\ \A i, k \in 1..Len(jobs) :
               i # k => <<jobs[i].dataset, jobs[i].target_host>>
                            # <<jobs[k].dataset, jobs[k].target_host>>
         /\ \A i \in 1..Len(info) :
               info[i].name # EmptyText =>
                  \E k \in 1..Len(jobs) :
                     jobs[k].dataset = info[i].name /\ jobs[k].target_host = info[i].target
    /\ (tool = BackupList /\ ~args.verify /\ pc = "extras") =>
         LET status == results["status"].result IN
         /\ \A i, k \in 1..Len(jobs) :
               i # k => <<jobs[i].job_name, jobs[i].repository_name>>
                            # <<jobs[k].job_name, jobs[k].repository_name>>
         /\ \A i \in 1..Len(status) :
               status[i].name # EmptyText =>
                  \E k \in 1..Len(jobs) :
                     /\ jobs[k].job_name = status[i].name
                     /\ jobs[k].repository_name = status[i].target
    /\ (BackupStatusReported /\ output.kind = "table") =>
         /\ \A i, k \in 1..Len(output.jobs) :
               i # k => <<output.jobs[i].system, output.jobs[i].key, output.jobs[i].target>>
                            # <<output.jobs[k].system, output.jobs[k].key, output.jobs[k].target>>
         /\ \A q \in {"syncoid_age", "restic_age"} :
               \A i \in 1..Len(results[q].result) :
                  \E k \in RowsOf(Subsystem(q)) :
                     /\ output.jobs[k].name = results[q].result[i].name
                     /\ output.jobs[k].target = results[q].result[i].target

\* The rows of a report whose last success lies in the future and whose status
\* is 1 or absent: the rows of backup-status by their age, the rows of the
\* table of syncoid-list by their last success.
FutureStatusRows ==
    IF BackupStatusReported /\ output.kind = "table"
    THEN { k \in 1..Len(output.jobs) :
             /\ output.jobs[k].age < 0
             /\ output.jobs[k].status \in {None, Some(1)}
             /\ output.jobs[k].status_text # "ERROR" }
    ELSE {}
FutureTableRows ==
    IF SyncoidListReported /\ output.kind = "table"
    THEN { k \in 1..Len(output.jobs) :
             /\ output.jobs[k].last_success # None
             /\ Get(output.jobs[k].last_success) > now
             /\ output.jobs[k].status \in {None, Some(1)} }
    ELSE {}

\* C22 as stated: a job whose last success is in the future is not STALE and
\* its age reads "in the future", in backup-status and in syncoid-list.
C22_FutureAgeReadsInTheFuture ==
    /\ \A k \in FutureStatusRows :
          output.jobs[k].status_text # "STALE" /\ output.jobs[k].ago = "in the future"
    /\ \A k \in FutureTableRows :
          /\ output.jobs[k].status_text # "STALE"
          /\ output.jobs[k].last_success_str = "in the future"

\* C22, amended: a job whose last success is in the future is never STALE: it
\* has the verdict of its status without an age (backup-status: OK;
\* syncoid-list: OK with status 1, UNKNOWN with no status), and its
\* age reads "in the future" in backup-status and "In future" in the table of
\* syncoid-list, never a text ending in "ago".
C22_FutureAgeIsNotStale ==
    /\ \A k \in FutureStatusRows :
          /\ output.jobs[k].status_text = "OK"
          /\ output.jobs[k].ago = "in the future"
    /\ \A k \in FutureTableRows :
          /\ output.jobs[k].status_text =
                IF output.jobs[k].status = Some(1) THEN "OK" ELSE "UNKNOWN"
          /\ output.jobs[k].last_success_str = "In future"

\* The table of syncoid-list shows a job with status 1 and a last success 60
\* seconds ahead of the run as OK, "In future".
C22_Witness ==
    \E k \in FutureTableRows :
       /\ output.jobs[k].status = Some(1)
       /\ output.jobs[k].last_success = Some(now + 60)
       /\ output.jobs[k].status_text = "OK"
       /\ output.jobs[k].last_success_str = "In future"

\* C23: a STALE verdict carries the detail "Last success > Xh ago" with X the
\* threshold of the tool that classified the job, and the job is older than
\* those X hours: 26 in backup-status (so a Restic job with status 1 and an
\* age of 93601 s reads "Last success > 26h ago"), 2 in syncoid-list.
C23_StaleDetailNamesThreshold ==
    /\ (BackupStatusReported /\ output.kind = "table") =>
         \A k \in 1..Len(output.jobs) :
            output.jobs[k].status_text = "STALE" =>
               /\ output.jobs[k].details = "Last success > 26h ago"
               /\ output.jobs[k].age > 26 * 3600
    /\ (SyncoidListReported /\ output.kind \in {"json", "table"}) =>
         \A k \in 1..Len(output.jobs) :
            output.jobs[k].status_text = "STALE" =>
               /\ output.jobs[k].details = "Last success > 2h ago"
               /\ output.jobs[k].last_success # None
               /\ now - Get(output.jobs[k].last_success) > 2 * 3600
    /\ (BackupStatusReported /\ output.kind = "table") =>
         \A k \in RowsOf("Restic") :
            (output.jobs[k].status = Some(1) /\ output.jobs[k].age = 93601) =>
               /\ output.jobs[k].status_text = "STALE"
               /\ output.jobs[k].details = "Last success > 26h ago"

\* A Restic job with status 1 and an age of 93601 s is printed STALE,
\* "Last success > 26h ago".
C23_Witness ==
    /\ BackupStatusReported /\ output.kind = "table"
    /\ \E k \in RowsOf("Restic") :
         /\ output.jobs[k].status = Some(1) /\ output.jobs[k].age = 93601
         /\ output.jobs[k].status_text = "STALE"
         /\ output.jobs[k].details = "Last success > 26h ago"

\* C24: no call is issued twice: a step issues at most one call, and a call
\* that has returned, with an answer or a failure, keeps what it returned to
\* the end of the run.
C24_NoRetries ==
    [][ /\ \A q \in DOMAIN results :
              results[q] # Pending => results'[q] = results[q]
        /\ \A q, r \in DOMAIN results :
              (results'[q] # results[q] /\ results'[r] # results[r]) => q = r
      ]_vars

\* The status query of syncoid-list failed, and the run went on to the
\* last-success query and to its report with the failure still in place.
C24_Witness ==
    /\ SyncoidListReported /\ ~args.verify
    /\ results["info"].st = "ok"
    /\ results["status"] = Failed
    /\ results["last_success"].st = "ok" /\ results["last_success"].result # <<>>
    /\ output.jobs # <<>>

\* C25: the counts of a syncoid-list summary partition the printed jobs: the
\* total is the number of printed records and the sum of the per-state counts
\* the summary shows (ok, running, stale, failed; neither output shows a count
\* of unknown jobs), and in the JSON document healthy = ok + running.
C25_CountsPartitionTheJobs ==
    (SyncoidListReported /\ output.kind \in {"json", "table"}) =>
        /\ output.summary.total = Len(output.jobs)
        /\ output.summary.total = output.summary.ok + output.summary.running
                                    + output.summary.stale + output.summary.failed
        /\ output.kind = "json" =>
              output.summary.healthy = output.summary.ok + output.summary.running

\* The non-empty dataset labels of the answer of the info query, and the
\* datasets of the job list.
InfoLabels ==
    { results["info"].result[i].name : i \in 1..Len(results["info"].result) }
        \ {EmptyText}
JobDatasets == { jobs[i].dataset : i \in 1..Len(jobs) }
OtherQueriesNotIssued ==
    results["status"] = Pending /\ results["last_success"] = Pending

\* C26 as stated: in metrics mode of syncoid-list the datasets of the job list
\* are exactly the non-empty dataset labels of the info answer, and when the
\* info query fails or its answer holds no sample the list is empty and the
\* status and last-success queries are not issued.
C26_InfoQueryBoundsTheRun ==
    (tool = SyncoidList /\ ~args.verify /\ results["info"] # Pending) =>
        /\ pc # "done" => JobDatasets = InfoLabels
        /\ pc = "done" => JobDatasets \subseteq InfoLabels
        /\ (results["info"].st # "ok" \/ results["info"].result = <<>>) =>
              jobs = <<>> /\ OtherQueriesNotIssued

\* C26, amended: the datasets of the job list are exactly the non-empty dataset
\* labels of the info answer (the filters of the command line can only remove
\* some); a failed info query leaves the list empty and ends the acquisition
\* with the other two queries not issued; an answer without a usable sample
\* leaves the list empty as well, whatever the other two queries answer.
C26_InfoQueryDecidesTheDatasets ==
    (tool = SyncoidList /\ ~args.verify /\ results["info"] # Pending) =>
        /\ pc # "done" => JobDatasets = InfoLabels
        /\ pc = "done" =>
              /\ JobDatasets \subseteq InfoLabels
              /\ (args.dataset = None /\ args.target = None) =>
                    JobDatasets = InfoLabels
        /\ results["info"].st # "ok" => jobs = <<>> /\ OtherQueriesNotIssued
        /\ InfoLabels = {} => jobs = <<>>

\* A finished run whose status answer names a dataset the info answer did not
\* return, next to a dataset it did return.
C26_Witness ==
    /\ tool = SyncoidList /\ ~args.verify /\ pc = "done"
    /\ jobs # <<>>
    /\ \E i \in 1..Len(results["status"].result) :
          /\ results["status"].result[i].name \notin InfoLabels
          /\ results["status"].result[i].value.num

\* The services of the timer listing whose properties could be read, and the
\* service a row of a verify-mode report stands for.
ShownServices ==
    { results["discover"].result[i] : i \in { k \in 1..Len(results["discover"].result) :
                                                results["discover"].result[k].show_ok } }
ServicesOf(row) == { svc \in ShownServices : DashToSlash(svc.unit) = row.dataset }

\* C27: in a verify-mode report of syncoid-list every job has a status among
\* 0, 1 and 2 read from systemd (activating gives 2 whatever the last result,
\* otherwise the result "success" gives 1, otherwise 0), a last-success time
\* only when the result is "success", and so a verdict that is never UNKNOWN
\* and is FAILED when the result is not "success" and the unit is not
\* activating.
C27_VerifyStatusFromSystemd ==
    (SyncoidListReported /\ args.verify /\ output.kind \in {"json", "table"}) =>
        \A k \in 1..Len(output.jobs) :
            LET row == output.jobs[k] IN
            /\ row.status \in {Some(0), Some(1), Some(2)}
            /\ row.status_text # "UNKNOWN"
            /\ ServicesOf(row) # {}
            /\ \A svc \in ServicesOf(row) :
                  /\ svc.active_state = "activating" => row.status = Some(2)
                  /\ (svc.active_state # "activating" /\ svc.result = "success") =>
                        row.status = Some(1)
                  /\ (svc.active_state # "activating" /\ svc.result # "success") =>
                        row.status = Some(0) /\ row.status_text = "FAILED"
                  /\ svc.result # "success" => row.last_success = None

\* A verify-mode report with a unit that is activating after a failed run and
\* a unit that failed and carries an exit timestamp.
C27_Witness ==
    /\ SyncoidListReported /\ args.verify /\ output.kind \in {"json", "table"}
    /\ \E k \in 1..Len(output.jobs) : \E svc \in ServicesOf(output.jobs[k]) :
          /\ svc.active_state = "activating" /\ svc.result # "success"
          /\ output.jobs[k].status_text = "RUNNING"
    /\ \E k \in 1..Len(output.jobs) : \E svc \in ServicesOf(output.jobs[k]) :
          /\ svc.active_state # "activating" /\ svc.result # "success"
          /\ svc.exit_timestamp # None
          /\ output.jobs[k].status_text = "FAILED"

\* C28: in verify mode of backup-list and of syncoid-list the SSH warm-up is
\* the first remote action: the discovery is answered only after a warm-up
\* that succeeded, and a failed warm-up ends the run with exit status 1 and
\* the connection error, the discovery and the per-service commands never
\* issued.
C28_WarmupComesFirst ==
    (tool \in {SyncoidList, BackupList} /\ args.verify) =>
        /\ pc # "start" => results["warmup"] # Pending
        /\ results["discover"] # Pending => results["warmup"].st = "ok"
        /\ results["warmup"] = Failed =>
              /\ pc = "done"
              /\ exitCode = Some(1)
              /\ output = ConnectError
              /\ results["discover"] = Pending
              /\ jobs = <<>>

\* A verify run of backup-list that ended on a failed warm-up.
C28_Witness ==
    /\ tool = BackupList /\ args.verify
    /\ results["warmup"] = Failed
    /\ pc = "done" /\ exitCode = Some(1) /\ output = ConnectError

\* The services of a backup-list --verify run that the loop hands to restic:
\* the filters let them through and their environment names a repository and
\* a password file.
HandedToRestic(svc) ==
    /\ svc.env # None
    /\ Get(svc.env).repository # EmptyText /\ Get(svc.env).password_file
    /\ Matches(args.service, svc.unit)
    /\ Matches(args.repo, get_repo_name(Get(svc.env).repository))

\* C29: in a verify report of backup-list the failure of one service stays
\* with that service: a service whose restic command failed has a record with
\* verified false, an error text and no snapshot; every other service handed
\* to restic, before or after it, has its record too; a record is verified
\* exactly when it has no error; and the summary counts the records and the
\* verified ones, verified_services <= total_services.
C29_ServiceFailureIsIsolated ==
    (tool = BackupList /\ args.verify /\ pc = "done"
        /\ output.kind \in {"json", "table"}) =>
        LET svcs == results["discover"].result IN
        /\ \A i \in 1..Len(svcs) :
              HandedToRestic(svcs[i]) =>
                 \E k \in 1..Len(output.jobs) :
                    LET rec == output.jobs[k] IN
                    /\ rec.job_name = svcs[i].unit
                    /\ svcs[i].restic = "failed" =>
                          /\ rec.verified = FALSE
                          /\ rec.error \notin {None, Some("")}
                          /\ rec.snapshots = 0
                    /\ svcs[i].restic # "failed" => rec.verified = TRUE
        /\ \A k \in 1..Len(output.jobs) :
              output.jobs[k].verified <=> output.jobs[k].error = None
        /\ output.summary.total_services = Len(output.jobs)
        /\ output.summary.verified_services =
              Cardinality({ k \in 1..Len(output.jobs) : output.jobs[k].verified })
        /\ output.summary.verified_services <= output.summary.total_services

\* A verify report of two services: the restic command of the first failed,
\* the second was verified after it.
C29_Witness ==
    /\ tool = BackupList /\ args.verify /\ pc = "done" /\ output.kind = "json"
    /\ Len(results["discover"].result) = 2 /\ Len(output.jobs) = 2
    /\ results["discover"].result[1].restic = "failed"
    /\ ~output.jobs[1].verified /\ output.jobs[1].error # None
    /\ output.jobs[2].verified
    /\ output.summary.total_services = 2 /\ output.summary.verified_services = 1

\* C30: backup-status tests the age of a job with a status only when the
\* status is exactly 1: a STALE Syncoid or Restic row with a status has the
\* status 1, and a row with a status outside the documented codes (0, 1 for
\* Restic; 0, 1, 2 for Syncoid) reads OK "Success" whatever its age, a stale
\* age included.
C30_EscalationOnlyOnStatusOne ==
    (BackupStatusReported /\ output.kind = "table") =>
        /\ \A k \in RowsOf("Syncoid") \cup RowsOf("Restic") :
              (output.jobs[k].status # None /\ output.jobs[k].status_text = "STALE") =>
                 output.jobs[k].status = Some(1)
        /\ \A k \in RowsOf("Syncoid") :
              (output.jobs[k].status # None
                  /\ output.jobs[k].status \notin {Some(0), Some(1), Some(2)}) =>
                 output.jobs[k].status_text = "OK" /\ output.jobs[k].details = "Success"
        /\ \A k \in RowsOf("Restic") :
              (output.jobs[k].status # None
                  /\ output.jobs[k].status \notin {Some(0), Some(1)}) =>
                 output.jobs[k].status_text = "OK" /\ output.jobs[k].details = "Success"

\* A Syncoid job with the status 3 and an age past the threshold, shown OK.
C30_Witness ==
    /\ BackupStatusReported /\ output.kind = "table"
    /\ \E k \in RowsOf("Syncoid") :
          /\ output.jobs[k].status = Some(3)
          /\ output.jobs[k].age > BackupStatus_STALE_THRESHOLD_HOURS * 3600
          /\ output.jobs[k].status_text = "OK"

====
